---- MODULE Spec2Model ----
(***************************************************************************)
(* The VPC migration workflow (src/src/migration_workflow.py) with its two *)
(* clients, AliyunMCPClient (src/src/aliyun_mcp_client.py) and             *)
(* CDKCodeGenerator (src/src/cdk-mcp-cli/cdk_cli.py).                      *)
(*                                                                         *)
(* Python values are tagged records: a dict is D(f) with f a function over *)
(* its keys, a list is L(s), a str is S(cs) with cs its sequence of        *)
(* characters, an int is N(n), None is Null.  A raised exception is        *)
(* Exc(type, msg), msg being the fragments of str(e).                      *)
(***************************************************************************)
EXTENDS Integers, Sequences, FiniteSets, TLC

\* ------------------------------------------------------------------------
\* Python values

EmptyDict == [x \in {} |-> x]
D(f) == [k |-> "dict", d |-> f]
L(s) == [k |-> "list", l |-> s]
S(cs) == [k |-> "str", s |-> cs]
N(n) == [k |-> "int", n |-> n]
B(b) == [k |-> "bool", b |-> b]
Null == [k |-> "null"]
Exc(type, msg) == [k |-> "raise", type |-> type, msg |-> msg]

IsExc(v) == v.k = "raise"
IsDict(v) == v.k = "dict"
IsList(v) == v.k = "list"

\* A case of Python's semantics that no input of this model reaches: TLC
\* stops with an error if one does.
Unmodelled == CHOOSE v \in {} : TRUE

\* bool(v)
Truthy(v) ==
    CASE v.k = "dict" -> DOMAIN v.d # {}
      [] v.k = "list" -> Len(v.l) > 0
      [] v.k = "str" -> Len(v.s) > 0
      [] v.k = "int" -> v.n # 0
      [] v.k = "bool" -> v.b
      [] v.k = "null" -> FALSE

\* a or b
Or(a, b) == IF Truthy(a) THEN a ELSE b

\* `key in v` raises TypeError unless v is a container.
InRaises(v) == v.k \in {"int", "bool", "null"}
\* `key in v` for a str key: a key of a dict, an element of a list.
In(key, v) ==
    CASE v.k = "dict" -> key \in DOMAIN v.d
      [] v.k = "list" -> IF \E i \in 1..Len(v.l) : v.l[i].k = "str" THEN Unmodelled ELSE FALSE
      [] v.k = "str" -> IF v.s = <<>> THEN FALSE ELSE Unmodelled

\* v[key] for a str key
Item(v, key) ==
    CASE v.k = "dict" ->
            IF key \in DOMAIN v.d THEN v.d[key]
            ELSE Exc("KeyError", <<"'", key, "'">>)
      [] v.k = "list" ->
            Exc("TypeError", <<"list indices must be integers or slices, not str">>)
      [] v.k = "str" ->
            Exc("TypeError", <<"string indices must be integers">>)
      [] v.k = "int" ->
            Exc("TypeError", <<"'int' object is not subscriptable">>)
      [] v.k = "bool" ->
            Exc("TypeError", <<"'bool' object is not subscriptable">>)
      [] v.k = "null" ->
            Exc("TypeError", <<"'NoneType' object is not subscriptable">>)

\* v.get(key): only a dict has the method.
Get(v, key) ==
    IF v.k = "dict"
    THEN IF key \in DOMAIN v.d THEN v.d[key] ELSE Null
    ELSE Exc("AttributeError",
             CASE v.k = "list" -> <<"'list' object has no attribute 'get'">>
               [] v.k = "str" -> <<"'str' object has no attribute 'get'">>
               [] v.k = "int" -> <<"'int' object has no attribute 'get'">>
               [] v.k = "bool" -> <<"'bool' object has no attribute 'get'">>
               [] v.k = "null" -> <<"'NoneType' object has no attribute 'get'">>)

Iterable(v) == v.k \in {"list", "str", "dict"}
\* The items a for loop over v visits, or the TypeError of a non-iterable.
Elems(v) ==
    CASE v.k = "list" -> v.l
      [] v.k = "str" -> [i \in 1..Len(v.s) |-> S(<<v.s[i]>>)]
      [] v.k = "dict" -> IF DOMAIN v.d = {} THEN <<>> ELSE Unmodelled
      [] v.k = "int" -> Exc("TypeError", <<"'int' object is not iterable">>)
      [] v.k = "bool" -> Exc("TypeError", <<"'bool' object is not iterable">>)
      [] v.k = "null" -> Exc("TypeError", <<"'NoneType' object is not iterable">>)

\* v[0]
First(v) ==
    CASE v.k = "list" ->
            IF Len(v.l) > 0 THEN v.l[1]
            ELSE Exc("IndexError", <<"list index out of range">>)
      [] v.k = "str" ->
            IF Len(v.s) > 0 THEN S(<<v.s[1]>>)
            ELSE Exc("IndexError", <<"string index out of range">>)
      [] v.k = "dict" -> Exc("KeyError", <<"0">>)
      [] v.k = "int" -> Exc("TypeError", <<"'int' object is not subscriptable">>)
      [] v.k = "bool" -> Exc("TypeError", <<"'bool' object is not subscriptable">>)
      [] v.k = "null" -> Exc("TypeError", <<"'NoneType' object is not subscriptable">>)

\* str(n) for the small naturals the code formats
RECURSIVE StrOfNat(_)
StrOfNat(n) ==
    IF n < 10 THEN <<<<"0","1","2","3","4","5","6","7","8","9">>[n + 1]>>
    ELSE StrOfNat(n \div 10) \o <<<<"0","1","2","3","4","5","6","7","8","9">>[(n % 10) + 1]>>

\* chr(97 + i)
ChrLower(i) == IF i < 26 THEN <<"a","b","c","d","e","f","g","h","i","j","k","l","m","n","o","p","q","r","s","t","u","v","w","x","y","z">>[i + 1] ELSE Unmodelled

\* ------------------------------------------------------------------------
\* AliyunMCPClient

MockVpcId == <<"v","p","c","-","m","o","c","k","-","1","2","3","4","5","6">>

\* _get_mock_vpc_data(vpc_id, region); vpc_id and region are character
\* sequences.
GetMockVpcData(vpc_id, region) ==
    D([vpc_id |-> S(IF vpc_id # <<>> THEN vpc_id ELSE MockVpcId),
       vpc_name |-> S(<<"d","e","m","o","-","v","p","c">>),
       cidr_block |-> S(<<"1","0",".","0",".","0",".","0","/","1","6">>),
       region |-> S(region),
       status |-> S(<<"A","v","a","i","l","a","b","l","e">>),
       vswitches |-> L(<<
           D([vswitch_id |-> S(<<"v","s","w","-","m","o","c","k","-","1","2","3","4","5","6">>),
              name |-> S(<<"d","e","m","o","-","s","u","b","n","e","t","-","1">>),
              cidr_block |-> S(<<"1","0",".","0",".","1",".","0","/","2","4">>),
              availability_zone |-> S(region \o <<"-","a">>),
              status |-> S(<<"A","v","a","i","l","a","b","l","e">>)]),
           D([vswitch_id |-> S(<<"v","s","w","-","m","o","c","k","-","7","8","9","0","1","2">>),
              name |-> S(<<"d","e","m","o","-","s","u","b","n","e","t","-","2">>),
              cidr_block |-> S(<<"1","0",".","0",".","2",".","0","/","2","4">>),
              availability_zone |-> S(region \o <<"-","b">>),
              status |-> S(<<"A","v","a","i","l","a","b","l","e">>)]) >>),
       security_groups |-> L(<<
           D([group_id |-> S(<<"s","g","-","m","o","c","k","-","1","2","3","4","5","6">>),
              name |-> S(<<"d","e","m","o","-","s","g">>),
              description |-> S(<<"D","e","m","o"," ","s","e","c","u","r","i","t","y"," ","g","r","o","u","p">>),
              rules |-> L(<<
                  D([protocol |-> S(<<"t","c","p">>), port |-> S(<<"8","0">>),
                     source |-> S(<<"0",".","0",".","0",".","0","/","0">>), direction |-> S(<<"i","n","g","r","e","s","s">>)]),
                  D([protocol |-> S(<<"t","c","p">>), port |-> S(<<"4","4","3">>),
                     source |-> S(<<"0",".","0",".","0",".","0","/","0">>), direction |-> S(<<"i","n","g","r","e","s","s">>)]) >>)]) >>)])

\* The tail of the collection probe of _convert_alibaba_vpc_format: the
\* 'vpcs' and 'Vpc' variants, else the empty list.
VpcsTail(data) ==
    IF In("vpcs", data) THEN Item(data, "vpcs")
    ELSE IF In("Vpc", data)
         THEN LET v == Item(data, "Vpc") IN IF IsDict(v) THEN L(<<v>>) ELSE v
         ELSE L(<<>>)

\* The VPC collection of the response (the body envelope unwrapped), or the
\* exception the probing raises.
VpcCollection(alibaba_data) ==
    IF InRaises(alibaba_data)
    THEN Exc("TypeError", <<"argument is not iterable">>)
    ELSE LET data == IF In("body", alibaba_data)
                     THEN Item(alibaba_data, "body") ELSE alibaba_data
         IN  IF IsExc(data) THEN data
             ELSE IF InRaises(data)
             THEN Exc("TypeError", <<"argument is not iterable">>)
             ELSE IF In("Vpcs", data)
             THEN LET inner == Item(data, "Vpcs") IN
                  IF InRaises(inner)
                  THEN Exc("TypeError", <<"argument is not iterable">>)
                  ELSE IF In("Vpc", inner) THEN Item(inner, "Vpc")
                       ELSE VpcsTail(data)
             ELSE VpcsTail(data)

\* A search that compares the 'VpcId' key only.
RECURSIVE SelectVpcByVpcIdOnly(_, _, _, _)
SelectVpcByVpcIdOnly(items, i, vpc_id, target) ==
    IF i > Len(items) THEN target
    ELSE IF ~IsDict(items[i]) THEN Get(items[i], "VpcId")
    ELSE IF Get(items[i], "VpcId") = S(vpc_id) THEN items[i]
         ELSE SelectVpcByVpcIdOnly(items, i + 1, vpc_id, target)

\* for vpc in vpcs: the first entry whose VpcId or vpc_id equals vpc_id, else
\* target (vpcs[0]); an entry without .get raises.
RECURSIVE SelectVpc(_, _, _, _)
SelectVpc(items, i, vpc_id, target) ==
    IF i > Len(items) THEN target
    ELSE IF ~IsDict(items[i]) THEN Get(items[i], "VpcId")
    ELSE IF Get(items[i], "VpcId") = S(vpc_id) \/ Get(items[i], "vpc_id") = S(vpc_id)
         THEN items[i]
         ELSE SelectVpc(items, i + 1, vpc_id, target)

\* The vswitches built from the embedded id list, one per id.
VSwitchesOf(ids, region) ==
    [i \in 1..Len(ids) |->
        D([vswitch_id |-> ids[i],
           name |-> S(<<"s","u","b","n","e","t","-">> \o StrOfNat(i)),
           cidr_block |-> S(<<"1","0",".","0",".">> \o StrOfNat(i) \o <<".","0","/","2","4">>),
           availability_zone |-> S(region \o <<"-", ChrLower(i - 1)>>),
           status |-> S(<<"A","v","a","i","l","a","b","l","e">>)])]

\* The vswitches of target_vpc (a dict) as a list, or the exception raised.
ConvertVSwitches(target_vpc, region) ==
    IF ~In("VSwitchIds", target_vpc) THEN L(<<>>)
    ELSE LET inner == Item(target_vpc, "VSwitchIds") IN
         IF InRaises(inner) THEN Exc("TypeError", <<"argument is not iterable">>)
         ELSE IF ~In("VSwitchId", inner) THEN L(<<>>)
         ELSE LET ids == Item(inner, "VSwitchId") IN
              IF ~Iterable(ids) THEN Elems(ids)
              ELSE L(VSwitchesOf(Elems(ids), region))

DefaultSecurityGroup(vpc_id) ==
    D([group_id |-> S(<<"s","g","-">> \o vpc_id),
       name |-> S(<<"d","e","f","a","u","l","t","-","s","g">>),
       description |-> S(<<"D","e","f","a","u","l","t"," ","s","e","c","u","r","i","t","y"," ","g","r","o","u","p">>),
       rules |-> L(<<
           D([protocol |-> S(<<"t","c","p">>), port |-> S(<<"8","0">>),
              source |-> S(<<"0",".","0",".","0",".","0","/","0">>), direction |-> S(<<"i","n","g","r","e","s","s">>)]),
           D([protocol |-> S(<<"t","c","p">>), port |-> S(<<"4","4","3">>),
              source |-> S(<<"0",".","0",".","0",".","0","/","0">>), direction |-> S(<<"i","n","g","r","e","s","s">>)]) >>)])

\* The converted record built from target_vpc and its vswitches.
ConvertedRecord(target_vpc, vsw, vpc_id, region) ==
    IF IsExc(vsw) THEN vsw
    ELSE
    D([vpc_id |-> Or(Or(Get(target_vpc, "VpcId"), Get(target_vpc, "vpc_id")), S(vpc_id)),
       vpc_name |-> Or(Or(Get(target_vpc, "VpcName"), Get(target_vpc, "vpc_name")),
                       S(<<"v","p","c","-">> \o vpc_id)),
       cidr_block |-> Or(Or(Get(target_vpc, "CidrBlock"), Get(target_vpc, "cidr_block")),
                         S(<<"1","0",".","0",".","0",".","0","/","1","6">>)),
       region |-> S(region),
       status |-> Or(Or(Get(target_vpc, "Status"), Get(target_vpc, "status")),
                     S(<<"A","v","a","i","l","a","b","l","e">>)),
       vswitches |-> vsw,
       security_groups |-> L(<<DefaultSecurityGroup(vpc_id)>>)])

\* The conversion once target_vpc is selected; an entry without .get raises.
ConvertTarget(target_vpc, vpc_id, region) ==
    IF IsExc(target_vpc) THEN target_vpc
    ELSE IF ~IsDict(target_vpc) THEN Get(target_vpc, "VpcId")
    ELSE ConvertedRecord(target_vpc, ConvertVSwitches(target_vpc, region), vpc_id, region)

\* The conversion of a non-empty collection whose vpcs[0] is first.
ConvertFirst(vpcs, first, vpc_id, region) ==
    IF IsExc(first) THEN first
    ELSE ConvertTarget(IF vpc_id # <<>> THEN SelectVpc(Elems(vpcs), 1, vpc_id, first)
                       ELSE first,
                       vpc_id, region)

\* The conversion of the collection found: the mock when it is empty.
ConvertVpcs(vpcs, vpc_id, region) ==
    IF IsExc(vpcs) THEN vpcs
    ELSE IF ~Truthy(vpcs) THEN GetMockVpcData(vpc_id, region)
    ELSE ConvertFirst(vpcs, First(vpcs), vpc_id, region)

\* The try block of _convert_alibaba_vpc_format: the converted record, the
\* mock when no VPC is found, or the exception raised.
ConvertTry(alibaba_data, vpc_id, region) ==
    ConvertVpcs(VpcCollection(alibaba_data), vpc_id, region)

\* _convert_alibaba_vpc_format: any exception becomes the mock.
ConvertAlibabaVpcFormat(alibaba_data, vpc_id, region) ==
    LET r == ConvertTry(alibaba_data, vpc_id, region) IN
    IF IsExc(r) THEN GetMockVpcData(vpc_id, region) ELSE r

\* What a call of the provider's describe tool yields: it raises ("raise"),
\* its content holds no text ("none"), one text that is not JSON ("text"), or
\* one text that json.loads turns into val ("json").
ToolRaise == [kind |-> "raise", val |-> Null]
ToolText == [kind |-> "text", val |-> S(<<"n","o"," ","v","p","c">>)]

\* What the LLM call of the parser yields: the call or the unwrapping of its
\* response raises ("raise"); the text is JSON for val ("json"); the text is
\* not JSON and its span from the first '{' to the last '}' is JSON for val
\* ("embedded"), is not JSON ("embedded_bad"), or does not exist ("nojson").
LlmRaise == [kind |-> "raise", val |-> Null]
LlmJson(v) == [kind |-> "json", val |-> v]
LlmEmbedded(v) == [kind |-> "embedded", val |-> v]
LlmEmbeddedBad == [kind |-> "embedded_bad", val |-> Null]
LlmNoJson == [kind |-> "nojson", val |-> Null]
\* The LLM call returns JSON text for val, but only after more than the 30
\* seconds get_vpc_info allows ("late").

\* _parse_vpc_data_with_llm
ParseVpcDataWithLlm(llm, vpc_id, region) ==
    IF llm.kind \in {"json", "embedded", "late"} THEN llm.val
    ELSE GetMockVpcData(vpc_id, region)

\* asyncio.wait_for(self._parse_vpc_data_with_llm(...), timeout=30.0): the
\* coroutine holds no await (invoke_model is a blocking call), so it runs to
\* its return in one step of the event loop; the timer cannot fire before
\* that, and the value is returned however long the call took.
WaitForParse(llm, vpc_id, region) == ParseVpcDataWithLlm(llm, vpc_id, region)

\* get_vpc_info; session is FALSE when self.session is None.
GetVpcInfo(session, tool, llm, vpc_id, region) ==
    IF ~session \/ tool.kind = "raise" THEN GetMockVpcData(vpc_id, region)
    ELSE IF tool.kind = "json" THEN ConvertAlibabaVpcFormat(tool.val, vpc_id, region)
    ELSE WaitForParse(llm, vpc_id, region)

\* list_vpcs
ListVpcs(session, tool) ==
    IF ~session THEN D([error |-> S(<<"'NoneType' object has no attribute 'call_tool'">>)])
    ELSE CASE tool.kind = "raise" -> D([error |-> S(<<"call_tool failed">>)])
           [] tool.kind = "none" -> D(EmptyDict)
           [] tool.kind = "json" -> tool.val
           [] tool.kind = "text" -> D([raw_response |-> tool.val])

\* ------------------------------------------------------------------------
\* MigrationWorkflow: the extract stage

\* The record the except branch of extract_alibaba_vpc stores.
FallbackVpcData ==
    D([vpc_id |-> S(<<"v","p","c","-","f","a","l","l","b","a","c","k","-","1","2","3","4","5","6">>),
       vpc_name |-> S(<<"d","e","m","o","-","v","p","c">>),
       cidr_block |-> S(<<"1","0",".","0",".","0",".","0","/","1","6">>),
       region |-> S(<<"c","n","-","h","a","n","g","z","h","o","u">>),
       vswitches |-> L(<<
           D([vswitch_id |-> S(<<"v","s","w","-","f","a","l","l","b","a","c","k","-","1","2","3","4","5","6">>),
              name |-> S(<<"d","e","m","o","-","s","u","b","n","e","t","-","1">>),
              cidr_block |-> S(<<"1","0",".","0",".","1",".","0","/","2","4">>),
              availability_zone |-> S(<<"c","n","-","h","a","n","g","z","h","o","u","-","a">>)]),
           D([vswitch_id |-> S(<<"v","s","w","-","f","a","l","l","b","a","c","k","-","7","8","9","0","1","2">>),
              name |-> S(<<"d","e","m","o","-","s","u","b","n","e","t","-","2">>),
              cidr_block |-> S(<<"1","0",".","0",".","2",".","0","/","2","4">>),
              availability_zone |-> S(<<"c","n","-","h","a","n","g","z","h","o","u","-","b">>)]) >>),
       security_groups |-> L(<<
           D([group_id |-> S(<<"s","g","-","f","a","l","l","b","a","c","k","-","1","2","3","4","5","6">>),
              name |-> S(<<"d","e","m","o","-","s","g">>),
              rules |-> L(<<
                  D([protocol |-> S(<<"t","c","p">>), port |-> S(<<"8","0">>),
                     source |-> S(<<"0",".","0",".","0",".","0","/","0">>)]),
                  D([protocol |-> S(<<"t","c","p">>), port |-> S(<<"4","4","3">>),
                     source |-> S(<<"0",".","0",".","0",".","0","/","0">>)]) >>)]) >>)])

\* source_config.get("vpc_id", "") and source_config.get("region",
\* "cn-hangzhou"), as character sequences.
RequestedVpcId(source_config) ==
    IF "vpc_id" \in DOMAIN source_config.d THEN source_config.d.vpc_id.s ELSE <<>>
RequestedRegion(source_config) ==
    IF "region" \in DOMAIN source_config.d THEN source_config.d.region.s
    ELSE <<"c","n","-","h","a","n","g","z","h","o","u">>

\* The record the no-id branch of the extract stage takes from the listing:
\* its first entry, the mock, or the exception of the indexing.
FromListing(vpcs_list, region) ==
    IF IsDict(vpcs_list) /\ In("vpcs", vpcs_list) /\ Truthy(Item(vpcs_list, "vpcs"))
    THEN First(Item(vpcs_list, "vpcs"))
    ELSE GetMockVpcData(<<>>, region)

\* The try block of extract_alibaba_vpc once the client exists: the record
\* stored, or the exception raised (the last statement of the block calls
\* .get on the record).
ExtractTry(session, tool, llm, source_config) ==
    LET vpc_id == RequestedVpcId(source_config)
        region == RequestedRegion(source_config)
        data == IF vpc_id # <<>>
                THEN GetVpcInfo(session, tool, llm, vpc_id, region)
                ELSE FromListing(ListVpcs(session, tool), region)
    IN  IF IsExc(data) THEN data
        ELSE IF ~IsDict(data) THEN Get(data, "vpc_name")
        ELSE data

\* The alibaba_vpc_data of the state the extract stage returns; ctor_ok is
\* FALSE when the AliyunMCPClient constructor raised.
ExtractedVpcData(ctor_ok, session, tool, llm, source_config) ==
    IF ~ctor_ok THEN FallbackVpcData
    ELSE LET r == ExtractTry(session, tool, llm, source_config) IN
         IF IsExc(r) THEN FallbackVpcData ELSE r

\* ------------------------------------------------------------------------
\* MigrationWorkflow: the transform stage

\* s.replace("-", "_")
Replace(cs) == [i \in 1..Len(cs) |-> IF cs[i] = "-" THEN "_" ELSE cs[i]]

\* The number a sequence of decimal digits denotes.
RECURSIVE NatOfDigits(_)
NatOfDigits(cs) ==
    IF Len(cs) = 0 THEN 0
    ELSE 10 * NatOfDigits(SubSeq(cs, 1, Len(cs) - 1))
         + (CHOOSE n \in 0..9 : <<"0","1","2","3","4","5","6","7","8","9">>[n + 1] = cs[Len(cs)])

\* int(v) in base 10.  A character outside ASCII is written by its code
\* point ("U+0663").  Of a str the blanks at both ends are dropped: space,
\* tab, newline, carriage return, form feed, vertical tab (written as the
\* character itself) and the blanks of Unicode; one sign may lead; single
\* underscores may stand between digits; a digit is any decimal digit of
\* Unicode, listed below by script in rows of ten, zero to nine.
IntOf(v) ==
    CASE v.k = "int" -> v
      [] v.k = "bool" -> N(IF v.b THEN 1 ELSE 0)
      [] v.k = "str" ->
            LET blanks == {" ", "\t", "\n", "\r", "\f", "",
                           "U+0085", "U+00A0", "U+1680", "U+2000", "U+2001", "U+2002",
                           "U+2003", "U+2004", "U+2005", "U+2006", "U+2007", "U+2008",
                           "U+2009", "U+200A", "U+2028", "U+2029", "U+202F", "U+205F", "U+3000"}
                decimal == <<
                     "0", "1", "2", "3", "4", "5", "6", "7", "8", "9",
                     "U+0660", "U+0661", "U+0662", "U+0663", "U+0664", "U+0665", "U+0666", "U+0667", "U+0668", "U+0669",
                     "U+06F0", "U+06F1", "U+06F2", "U+06F3", "U+06F4", "U+06F5", "U+06F6", "U+06F7", "U+06F8", "U+06F9",
                     "U+07C0", "U+07C1", "U+07C2", "U+07C3", "U+07C4", "U+07C5", "U+07C6", "U+07C7", "U+07C8", "U+07C9",
                     "U+0966", "U+0967", "U+0968", "U+0969", "U+096A", "U+096B", "U+096C", "U+096D", "U+096E", "U+096F",
                     "U+09E6", "U+09E7", "U+09E8", "U+09E9", "U+09EA", "U+09EB", "U+09EC", "U+09ED", "U+09EE", "U+09EF",
                     "U+0A66", "U+0A67", "U+0A68", "U+0A69", "U+0A6A", "U+0A6B", "U+0A6C", "U+0A6D", "U+0A6E", "U+0A6F",
                     "U+0AE6", "U+0AE7", "U+0AE8", "U+0AE9", "U+0AEA", "U+0AEB", "U+0AEC", "U+0AED", "U+0AEE", "U+0AEF",
                     "U+0B66", "U+0B67", "U+0B68", "U+0B69", "U+0B6A", "U+0B6B", "U+0B6C", "U+0B6D", "U+0B6E", "U+0B6F",
                     "U+0BE6", "U+0BE7", "U+0BE8", "U+0BE9", "U+0BEA", "U+0BEB", "U+0BEC", "U+0BED", "U+0BEE", "U+0BEF",
                     "U+0C66", "U+0C67", "U+0C68", "U+0C69", "U+0C6A", "U+0C6B", "U+0C6C", "U+0C6D", "U+0C6E", "U+0C6F",
                     "U+0CE6", "U+0CE7", "U+0CE8", "U+0CE9", "U+0CEA", "U+0CEB", "U+0CEC", "U+0CED", "U+0CEE", "U+0CEF",
                     "U+0D66", "U+0D67", "U+0D68", "U+0D69", "U+0D6A", "U+0D6B", "U+0D6C", "U+0D6D", "U+0D6E", "U+0D6F",
                     "U+0DE6", "U+0DE7", "U+0DE8", "U+0DE9", "U+0DEA", "U+0DEB", "U+0DEC", "U+0DED", "U+0DEE", "U+0DEF",
                     "U+0E50", "U+0E51", "U+0E52", "U+0E53", "U+0E54", "U+0E55", "U+0E56", "U+0E57", "U+0E58", "U+0E59",
                     "U+0ED0", "U+0ED1", "U+0ED2", "U+0ED3", "U+0ED4", "U+0ED5", "U+0ED6", "U+0ED7", "U+0ED8", "U+0ED9",
                     "U+0F20", "U+0F21", "U+0F22", "U+0F23", "U+0F24", "U+0F25", "U+0F26", "U+0F27", "U+0F28", "U+0F29",
                     "U+1040", "U+1041", "U+1042", "U+1043", "U+1044", "U+1045", "U+1046", "U+1047", "U+1048", "U+1049",
                     "U+1090", "U+1091", "U+1092", "U+1093", "U+1094", "U+1095", "U+1096", "U+1097", "U+1098", "U+1099",
                     "U+17E0", "U+17E1", "U+17E2", "U+17E3", "U+17E4", "U+17E5", "U+17E6", "U+17E7", "U+17E8", "U+17E9",
                     "U+1810", "U+1811", "U+1812", "U+1813", "U+1814", "U+1815", "U+1816", "U+1817", "U+1818", "U+1819",
                     "U+1946", "U+1947", "U+1948", "U+1949", "U+194A", "U+194B", "U+194C", "U+194D", "U+194E", "U+194F",
                     "U+19D0", "U+19D1", "U+19D2", "U+19D3", "U+19D4", "U+19D5", "U+19D6", "U+19D7", "U+19D8", "U+19D9",
                     "U+1A80", "U+1A81", "U+1A82", "U+1A83", "U+1A84", "U+1A85", "U+1A86", "U+1A87", "U+1A88", "U+1A89",
                     "U+1A90", "U+1A91", "U+1A92", "U+1A93", "U+1A94", "U+1A95", "U+1A96", "U+1A97", "U+1A98", "U+1A99",
                     "U+1B50", "U+1B51", "U+1B52", "U+1B53", "U+1B54", "U+1B55", "U+1B56", "U+1B57", "U+1B58", "U+1B59",
                     "U+1BB0", "U+1BB1", "U+1BB2", "U+1BB3", "U+1BB4", "U+1BB5", "U+1BB6", "U+1BB7", "U+1BB8", "U+1BB9",
                     "U+1C40", "U+1C41", "U+1C42", "U+1C43", "U+1C44", "U+1C45", "U+1C46", "U+1C47", "U+1C48", "U+1C49",
                     "U+1C50", "U+1C51", "U+1C52", "U+1C53", "U+1C54", "U+1C55", "U+1C56", "U+1C57", "U+1C58", "U+1C59",
                     "U+A620", "U+A621", "U+A622", "U+A623", "U+A624", "U+A625", "U+A626", "U+A627", "U+A628", "U+A629",
                     "U+A8D0", "U+A8D1", "U+A8D2", "U+A8D3", "U+A8D4", "U+A8D5", "U+A8D6", "U+A8D7", "U+A8D8", "U+A8D9",
                     "U+A900", "U+A901", "U+A902", "U+A903", "U+A904", "U+A905", "U+A906", "U+A907", "U+A908", "U+A909",
                     "U+A9D0", "U+A9D1", "U+A9D2", "U+A9D3", "U+A9D4", "U+A9D5", "U+A9D6", "U+A9D7", "U+A9D8", "U+A9D9",
                     "U+A9F0", "U+A9F1", "U+A9F2", "U+A9F3", "U+A9F4", "U+A9F5", "U+A9F6", "U+A9F7", "U+A9F8", "U+A9F9",
                     "U+AA50", "U+AA51", "U+AA52", "U+AA53", "U+AA54", "U+AA55", "U+AA56", "U+AA57", "U+AA58", "U+AA59",
                     "U+ABF0", "U+ABF1", "U+ABF2", "U+ABF3", "U+ABF4", "U+ABF5", "U+ABF6", "U+ABF7", "U+ABF8", "U+ABF9",
                     "U+FF10", "U+FF11", "U+FF12", "U+FF13", "U+FF14", "U+FF15", "U+FF16", "U+FF17", "U+FF18", "U+FF19",
                     "U+104A0", "U+104A1", "U+104A2", "U+104A3", "U+104A4", "U+104A5", "U+104A6", "U+104A7", "U+104A8", "U+104A9",
                     "U+10D30", "U+10D31", "U+10D32", "U+10D33", "U+10D34", "U+10D35", "U+10D36", "U+10D37", "U+10D38", "U+10D39",
                     "U+11066", "U+11067", "U+11068", "U+11069", "U+1106A", "U+1106B", "U+1106C", "U+1106D", "U+1106E", "U+1106F",
                     "U+110F0", "U+110F1", "U+110F2", "U+110F3", "U+110F4", "U+110F5", "U+110F6", "U+110F7", "U+110F8", "U+110F9",
                     "U+11136", "U+11137", "U+11138", "U+11139", "U+1113A", "U+1113B", "U+1113C", "U+1113D", "U+1113E", "U+1113F",
                     "U+111D0", "U+111D1", "U+111D2", "U+111D3", "U+111D4", "U+111D5", "U+111D6", "U+111D7", "U+111D8", "U+111D9",
                     "U+112F0", "U+112F1", "U+112F2", "U+112F3", "U+112F4", "U+112F5", "U+112F6", "U+112F7", "U+112F8", "U+112F9",
                     "U+11450", "U+11451", "U+11452", "U+11453", "U+11454", "U+11455", "U+11456", "U+11457", "U+11458", "U+11459",
                     "U+114D0", "U+114D1", "U+114D2", "U+114D3", "U+114D4", "U+114D5", "U+114D6", "U+114D7", "U+114D8", "U+114D9",
                     "U+11650", "U+11651", "U+11652", "U+11653", "U+11654", "U+11655", "U+11656", "U+11657", "U+11658", "U+11659",
                     "U+116C0", "U+116C1", "U+116C2", "U+116C3", "U+116C4", "U+116C5", "U+116C6", "U+116C7", "U+116C8", "U+116C9",
                     "U+11730", "U+11731", "U+11732", "U+11733", "U+11734", "U+11735", "U+11736", "U+11737", "U+11738", "U+11739",
                     "U+118E0", "U+118E1", "U+118E2", "U+118E3", "U+118E4", "U+118E5", "U+118E6", "U+118E7", "U+118E8", "U+118E9",
                     "U+11950", "U+11951", "U+11952", "U+11953", "U+11954", "U+11955", "U+11956", "U+11957", "U+11958", "U+11959",
                     "U+11C50", "U+11C51", "U+11C52", "U+11C53", "U+11C54", "U+11C55", "U+11C56", "U+11C57", "U+11C58", "U+11C59",
                     "U+11D50", "U+11D51", "U+11D52", "U+11D53", "U+11D54", "U+11D55", "U+11D56", "U+11D57", "U+11D58", "U+11D59",
                     "U+11DA0", "U+11DA1", "U+11DA2", "U+11DA3", "U+11DA4", "U+11DA5", "U+11DA6", "U+11DA7", "U+11DA8", "U+11DA9",
                     "U+16A60", "U+16A61", "U+16A62", "U+16A63", "U+16A64", "U+16A65", "U+16A66", "U+16A67", "U+16A68", "U+16A69",
                     "U+16AC0", "U+16AC1", "U+16AC2", "U+16AC3", "U+16AC4", "U+16AC5", "U+16AC6", "U+16AC7", "U+16AC8", "U+16AC9",
                     "U+16B50", "U+16B51", "U+16B52", "U+16B53", "U+16B54", "U+16B55", "U+16B56", "U+16B57", "U+16B58", "U+16B59",
                     "U+1D7CE", "U+1D7CF", "U+1D7D0", "U+1D7D1", "U+1D7D2", "U+1D7D3", "U+1D7D4", "U+1D7D5", "U+1D7D6", "U+1D7D7",
                     "U+1D7D8", "U+1D7D9", "U+1D7DA", "U+1D7DB", "U+1D7DC", "U+1D7DD", "U+1D7DE", "U+1D7DF", "U+1D7E0", "U+1D7E1",
                     "U+1D7E2", "U+1D7E3", "U+1D7E4", "U+1D7E5", "U+1D7E6", "U+1D7E7", "U+1D7E8", "U+1D7E9", "U+1D7EA", "U+1D7EB",
                     "U+1D7EC", "U+1D7ED", "U+1D7EE", "U+1D7EF", "U+1D7F0", "U+1D7F1", "U+1D7F2", "U+1D7F3", "U+1D7F4", "U+1D7F5",
                     "U+1D7F6", "U+1D7F7", "U+1D7F8", "U+1D7F9", "U+1D7FA", "U+1D7FB", "U+1D7FC", "U+1D7FD", "U+1D7FE", "U+1D7FF",
                     "U+1E140", "U+1E141", "U+1E142", "U+1E143", "U+1E144", "U+1E145", "U+1E146", "U+1E147", "U+1E148", "U+1E149",
                     "U+1E2F0", "U+1E2F1", "U+1E2F2", "U+1E2F3", "U+1E2F4", "U+1E2F5", "U+1E2F6", "U+1E2F7", "U+1E2F8", "U+1E2F9",
                     "U+1E950", "U+1E951", "U+1E952", "U+1E953", "U+1E954", "U+1E955", "U+1E956", "U+1E957", "U+1E958", "U+1E959",
                     "U+1FBF0", "U+1FBF1", "U+1FBF2", "U+1FBF3", "U+1FBF4", "U+1FBF5", "U+1FBF6", "U+1FBF7", "U+1FBF8", "U+1FBF9" >>
                inner == { i \in 1..Len(v.s) : v.s[i] \notin blanks }
                first == IF inner = {} THEN 1 ELSE CHOOSE i \in inner : \A j \in inner : i <= j
                last == IF inner = {} THEN 0 ELSE CHOOSE i \in inner : \A j \in inner : j <= i
                signed == inner # {} /\ v.s[first] \in {"+", "-"}
                body == SubSeq(v.s, IF signed THEN first + 1 ELSE first, last)
                ascii == [i \in 1..Len(body) |->
                            IF \E k \in 1..Len(decimal) : decimal[k] = body[i]
                            THEN decimal[(((CHOOSE k \in 1..Len(decimal) :
                                               decimal[k] = body[i]) - 1) % 10) + 1]
                            ELSE body[i]]
                literal == /\ Len(body) > 0
                           /\ \A i \in 1..Len(body) :
                                 \/ \E n \in 0..9 : <<"0","1","2","3","4","5","6","7","8","9">>[n + 1] = ascii[i]
                                 \/ /\ body[i] = "_"
                                    /\ 1 < i /\ i < Len(body)
                                    /\ body[i + 1] # "_"
                n == NatOfDigits(SelectSeq(ascii, LAMBDA c : c # "_"))
            IN  IF literal
                THEN N(IF signed /\ v.s[first] = "-" THEN 0 - n ELSE n)
                ELSE Exc("ValueError", <<"invalid literal for int() with base 10: ", v.s>>)
      [] v.k = "list" ->
            Exc("TypeError", <<"int() argument must be a string, a bytes-like object or a real number, not 'list'">>)
      [] v.k = "dict" ->
            Exc("TypeError", <<"int() argument must be a string, a bytes-like object or a real number, not 'dict'">>)
      [] v.k = "null" ->
            Exc("TypeError", <<"int() argument must be a string, a bytes-like object or a real number, not 'NoneType'">>)

\* The text an f-string gives a value.
Fmt(v) ==
    CASE v.k = "str" -> v.s
      [] v.k = "int" -> IF v.n >= 0 THEN StrOfNat(v.n) ELSE <<"-">> \o StrOfNat(0 - v.n)
      [] v.k = "null" -> <<"N","o","n","e">>
      [] OTHER -> Unmodelled

\* v.replace("-", "_") of a value read from the record
ReplaceOf(v) ==
    IF IsExc(v) THEN v
    ELSE IF v.k = "str" THEN S(Replace(v.s))
    ELSE Exc("AttributeError",
             CASE v.k = "list" -> <<"'list' object has no attribute 'replace'">>
               [] v.k = "dict" -> <<"'dict' object has no attribute 'replace'">>
               [] v.k = "int" -> <<"'int' object has no attribute 'replace'">>
               [] v.k = "bool" -> <<"'bool' object has no attribute 'replace'">>
               [] v.k = "null" -> <<"'NoneType' object has no attribute 'replace'">>)

\* The first exception among the results, else the list of them.
FirstExcOrList(results) ==
    IF \E i \in 1..Len(results) : IsExc(results[i])
    THEN results[CHOOSE i \in 1..Len(results) :
                    IsExc(results[i]) /\ \A j \in 1..(i - 1) : ~IsExc(results[j])]
    ELSE L(results)

\* The first exception among the fields of a record being built, in the
\* order evaluated, else the record.
FirstExcOrDict(order, fields) ==
    IF \E i \in 1..Len(order) : IsExc(fields[order[i]])
    THEN fields[order[CHOOSE i \in 1..Len(order) :
                    IsExc(fields[order[i]]) /\ \A j \in 1..(i - 1) : ~IsExc(fields[order[j]])]]
    ELSE D(fields)

\* az_mapping.get(zone, "us-east-1a"); a list or dict key is unhashable.
MapZone(zone) ==
    IF IsExc(zone) THEN zone
    ELSE IF zone.k = "list" THEN Exc("TypeError", <<"unhashable type: 'list'">>)
    ELSE IF zone.k = "dict" THEN Exc("TypeError", <<"unhashable type: 'dict'">>)
    ELSE IF zone = S(<<"c","n","-","h","a","n","g","z","h","o","u","-","a">>) THEN S(<<"u","s","-","e","a","s","t","-","1","a">>)
    ELSE IF zone = S(<<"c","n","-","h","a","n","g","z","h","o","u","-","b">>) THEN S(<<"u","s","-","e","a","s","t","-","1","b">>)
    ELSE S(<<"u","s","-","e","a","s","t","-","1","a">>)

TransformSubnet(vswitch) ==
    FirstExcOrDict(<<"name", "cidr", "availability_zone", "map_public_ip_on_launch">>,
       [name |-> ReplaceOf(Item(vswitch, "name")),
        cidr |-> Item(vswitch, "cidr_block"),
        availability_zone |-> MapZone(Item(vswitch, "availability_zone")),
        map_public_ip_on_launch |-> B(TRUE)])

\* A rule passed on with the port as the record holds it, int() left out.
TransformRuleKeepingPortText(rule) ==
    LET port == Item(rule, "port")
        source == Item(rule, "source")
    IN  FirstExcOrDict(<<"protocol", "from_port", "to_port", "cidr_blocks">>,
           [protocol |-> Item(rule, "protocol"),
            from_port |-> port,
            to_port |-> port,
            cidr_blocks |-> IF IsExc(source) THEN source ELSE L(<<source>>)])

\* aws_rule of transform_vpc_data: the dict built for one rule, its items
\* evaluated in order.
TransformRule(rule) ==
    LET port == Item(rule, "port")
        n == IF IsExc(port) THEN port ELSE IntOf(port)
        source == Item(rule, "source")
    IN  FirstExcOrDict(<<"protocol", "from_port", "to_port", "cidr_blocks">>,
           [protocol |-> Item(rule, "protocol"),
            from_port |-> n,
            to_port |-> n,
            cidr_blocks |-> IF IsExc(source) THEN source ELSE L(<<source>>)])

\* Each item of a list value through f, or the first exception raised.
TransformRules(rules) ==
    IF IsExc(rules) THEN rules
    ELSE IF ~Iterable(rules) THEN Elems(rules)
    ELSE FirstExcOrList([i \in 1..Len(Elems(rules)) |-> TransformRule(Elems(rules)[i])])

TransformSecurityGroup(sg) ==
    LET group_id == Item(sg, "group_id")
        head == FirstExcOrDict(<<"name", "description", "ingress_rules">>,
                   [name |-> ReplaceOf(Item(sg, "name")),
                    description |-> IF IsExc(group_id) THEN group_id
                                    ELSE S(<<"M","i","g","r","a","t","e","d"," ","f","r","o","m"," ","A","l","i","b","a","b","a"," ","C","l","o","u","d"," ","S","G"," ">> \o Fmt(group_id)),
                    ingress_rules |-> L(<<>>)])
        rules == TransformRules(Item(sg, "rules"))
    IN  IF IsExc(head) THEN head
        ELSE IF IsExc(rules) THEN rules
        ELSE D([head.d EXCEPT !.ingress_rules = rules])

\* The try block of transform_vpc_data: transformed_data, or the exception.
TransformTry(alibaba_data) ==
    LET vpc == FirstExcOrDict(<<"name", "cidr", "enable_dns_hostnames", "enable_dns_support">>,
                  [name |-> ReplaceOf(Item(alibaba_data, "vpc_name")),
                   cidr |-> Item(alibaba_data, "cidr_block"),
                   enable_dns_hostnames |-> B(TRUE),
                   enable_dns_support |-> B(TRUE)])
        vswitches == Item(alibaba_data, "vswitches")
        subnets == IF IsExc(vswitches) THEN vswitches
                   ELSE IF ~Iterable(vswitches) THEN Elems(vswitches)
                   ELSE FirstExcOrList([i \in 1..Len(Elems(vswitches)) |->
                                           TransformSubnet(Elems(vswitches)[i])])
        groups == Item(alibaba_data, "security_groups")
        security_groups ==
                   IF IsExc(groups) THEN groups
                   ELSE IF ~Iterable(groups) THEN Elems(groups)
                   ELSE FirstExcOrList([i \in 1..Len(Elems(groups)) |->
                                           TransformSecurityGroup(Elems(groups)[i])])
    IN  IF IsExc(vpc) THEN vpc
        ELSE IF IsExc(subnets) THEN subnets
        ELSE IF IsExc(security_groups) THEN security_groups
        ELSE D([vpc |-> vpc, subnets |-> subnets, security_groups |-> security_groups])

\* ------------------------------------------------------------------------
\* MigrationWorkflow: the generate stage

\* c.upper() when upper, c.lower() otherwise, for one character: an ASCII
\* letter changes its case, any other character of the model's inputs is
\* kept.
LetterCase(c, upper) ==
    LET from == IF upper THEN <<"a","b","c","d","e","f","g","h","i","j","k","l","m","n","o","p","q","r","s","t","u","v","w","x","y","z">>
                ELSE <<"A","B","C","D","E","F","G","H","I","J","K","L","M","N","O","P","Q","R","S","T","U","V","W","X","Y","Z">>
        to == IF upper THEN <<"A","B","C","D","E","F","G","H","I","J","K","L","M","N","O","P","Q","R","S","T","U","V","W","X","Y","Z">>
              ELSE <<"a","b","c","d","e","f","g","h","i","j","k","l","m","n","o","p","q","r","s","t","u","v","w","x","y","z">>
    IN  IF \E i \in 1..26 : from[i] = c THEN to[CHOOSE i \in 1..26 : from[i] = c] ELSE c

\* ''.join(word.capitalize() for word in name.split('-')): after a '-' (and
\* at the start) a character is upper-cased, elsewhere lower-cased, and the
\* '-' are dropped.
RECURSIVE Capitalized(_, _)
Capitalized(cs, at_start) ==
    IF Len(cs) = 0 THEN <<>>
    ELSE IF Head(cs) = "-" THEN Capitalized(Tail(cs), TRUE)
    ELSE <<LetterCase(Head(cs), at_start)>>
         \o Capitalized(Tail(cs), FALSE)

\* The class name _create_cdk_description and _fix_bin_file compute.
ClassName(project_name) == Capitalized(project_name, TRUE) \o <<"S","t","a","c","k">>

\* ','.join(str(rule['from_port']) for rule in rules)
RECURSIVE JoinPorts(_)
JoinPorts(rules) ==
    IF Len(rules) = 0 THEN <<>>
    ELSE Fmt(rules[1].d.from_port)
         \o (IF Len(rules) > 1 THEN <<",">> ELSE <<>>) \o JoinPorts(Tail(rules))

\* _create_cdk_description: what the description names (the class name of
\* self.current_project_name, the VPC, a line per subnet and per security
\* group), or the KeyError of an empty transformed_data.
CreateCdkDescription(transformed_data, current_project_name) ==
    IF IsExc(Item(transformed_data, "vpc")) THEN Item(transformed_data, "vpc")
    ELSE IF IsExc(Item(transformed_data, "subnets")) THEN Item(transformed_data, "subnets")
    ELSE [class_name |-> ClassName(current_project_name),
          vpc_name |-> Fmt(transformed_data.d.vpc.d.name),
          vpc_cidr |-> Fmt(transformed_data.d.vpc.d.cidr),
          subnets |-> [i \in 1..Len(transformed_data.d.subnets.l) |->
                          Fmt(transformed_data.d.subnets.l[i].d.name)],
          security_groups |->
              [i \in 1..Len(transformed_data.d.security_groups.l) |->
                  [name |-> Fmt(transformed_data.d.security_groups.l[i].d.name),
                   ingress_ports |->
                       JoinPorts(transformed_data.d.security_groups.l[i].d.ingress_rules.l)]],
          k |-> "description"]

\* A text is the sequence of its lines; the empty string is the one empty
\* line.  FenceOpen stands for the line of three backquotes and the word
\* typescript, FenceClose for the line of three backquotes.
FenceOpen == "[fence]typescript"
FenceClose == "[fence]"

\* line.strip().startswith(('import ', 'export ', 'const ', 'class ', 'interface '))
StartsCode(line) ==
    line \in {"import * as cdk from 'aws-cdk-lib';", "export class MyVpcStack extends cdk.Stack {}"}
\* any(phrase in line.lower() for phrase in [...])
HasExplainPhrase(line) == line = "This CDK code creates a VPC."
\* three backquotes occur in the line
HasFence(line) == line \in {FenceOpen, FenceClose}

\* text.strip(), on lines: blank lines at both ends go; one line is left.
RECURSIVE StripLines(_)
StripLines(lines) ==
    IF Len(lines) = 0 THEN <<"">>
    ELSE IF Head(lines) = "" THEN StripLines(Tail(lines))
    ELSE IF lines[Len(lines)] = "" THEN StripLines(SubSeq(lines, 1, Len(lines) - 1))
    ELSE lines

\* "\n".join(texts)
RECURSIVE JoinTexts(_)
JoinTexts(texts) ==
    IF Len(texts) = 0 THEN <<"">>
    ELSE IF Len(texts) = 1 THEN texts[1]
    ELSE texts[1] \o JoinTexts(Tail(texts))

\* The line scan of _extract_typescript_code: from the first line that
\* starts code on, the lines without an explanatory phrase.
RECURSIVE ScanLines(_, _)
ScanLines(lines, in_code) ==
    IF Len(lines) = 0 THEN <<>>
    ELSE LET now == in_code \/ StartsCode(Head(lines)) IN
         (IF now /\ ~HasExplainPhrase(Head(lines)) THEN <<Head(lines)>> ELSE <<>>)
         \o ScanLines(Tail(lines), now)

\* An extraction that never looks for a fenced block.
ExtractByLineScanOnly(response) == StripLines(ScanLines(response, FALSE))

\* _extract_typescript_code: the trimmed body of the first block opened by
\* the typescript fence and ended by the next fence, else the line scan.
ExtractTypescriptCode(response) ==
    IF \E i, j \in 1..Len(response) :
          i < j /\ response[i] = FenceOpen /\ HasFence(response[j])
    THEN LET i == CHOOSE a \in 1..Len(response) :
                     /\ response[a] = FenceOpen
                     /\ \E b \in (a + 1)..Len(response) : HasFence(response[b])
                     /\ \A c \in 1..(a - 1) :
                            ~(response[c] = FenceOpen
                              /\ \E b \in (c + 1)..Len(response) : HasFence(response[b]))
             j == CHOOSE b \in (i + 1)..Len(response) :
                     HasFence(response[b]) /\ \A c \in (i + 1)..(b - 1) : ~HasFence(response[c])
         IN  StripLines(SubSeq(response, i + 1, j - 1))
    ELSE StripLines(ScanLines(response, FALSE))

\* An entry-point template filled with the project name as it is.
BinContentOfRawName(project_name) ==
    [import_class |-> project_name \o <<"S","t","a","c","k">>,
     import_from |-> <<".",".","/","l","i","b","/">> \o project_name \o <<"-","s","t","a","c","k">>,
     new_class |-> project_name \o <<"S","t","a","c","k">>,
     stack_id |-> project_name \o <<"S","t","a","c","k">>]

\* The content _fix_bin_file writes: the template's import and instantiation.
BinContent(project_name) ==
    [import_class |-> ClassName(project_name),
     import_from |-> <<".",".","/","l","i","b","/">> \o project_name \o <<"-","s","t","a","c","k">>,
     new_class |-> ClassName(project_name),
     stack_id |-> ClassName(project_name)]

\* str(Path(*segments)), the segments being character sequences: pathlib
\* drops empty and "." components and repeated or trailing slashes, and a
\* segment that starts with a slash replaces what came before it.  i is the
\* position in segment k, cur the component being read, out the components
\* read so far.
RECURSIVE PathScan(_, _, _, _, _, _)
PathScan(segments, k, i, root, out, cur) ==
    IF k > Len(segments)
    THEN IF root = <<>> /\ out = <<>> THEN <<".">> ELSE root \o out
    ELSE LET seg == segments[k]
             flushed == IF cur \in {<<>>, <<".">>} THEN out
                        ELSE IF out = <<>> THEN cur
                        ELSE out \o <<"/">> \o cur
         IN  IF i > Len(seg) THEN PathScan(segments, k + 1, 1, root, flushed, <<>>)
             ELSE IF i = 1 /\ seg[1] = "/"
             THEN PathScan(segments, k, 2,
                           IF Len(seg) >= 2 /\ seg[2] = "/" /\ (Len(seg) = 2 \/ seg[3] # "/")
                           THEN <<"/", "/">> ELSE <<"/">>,
                           <<>>, <<>>)
             ELSE IF seg[i] = "/" THEN PathScan(segments, k, i + 1, root, flushed, <<>>)
             ELSE PathScan(segments, k, i + 1, root, out, cur \o <<seg[i]>>)

\* Paths, as character sequences: target_dir / project_name, the stack file
\* and the entry-point file under it.
ProjectPath(target_directory, project_name) ==
    PathScan(<<target_directory, project_name>>, 1, 1, <<>>, <<>>, <<>>)
StackFile(project_path, project_name) ==
    PathScan(<<project_path, <<"l","i","b">>, project_name \o <<"-","s","t","a","c","k",".","t","s">>>>, 1, 1, <<>>, <<>>, <<>>)
BinFile(project_path, project_name) ==
    PathScan(<<project_path, <<"b","i","n">>, project_name \o <<".","t","s">>>>, 1, 1, <<>>, <<>>, <<>>)
\* str(Path(s)): the empty path is the current directory.
PathStr(s) == PathScan(<<s>>, 1, 1, <<>>, <<>>, <<>>)

\* The answers the model gives in generate_cdk_code: a response is the
\* sequence of its content blocks; a text block carries its lines.
Text(lines) == [type |-> "text", text |-> lines, id |-> "-"]
ToolUse(id) == [type |-> "tool_use", text |-> <<>>, id |-> id]
CodeText == <<"Here is the stack:", FenceOpen, "import * as cdk from 'aws-cdk-lib';",
              "export class MyVpcStack extends cdk.Stack {}", FenceClose,
              "This CDK code creates a VPC.">>
BareText == <<"import * as cdk from 'aws-cdk-lib';", "This CDK code creates a VPC.",
              "export class MyVpcStack extends cdk.Stack {}">>
ProseText == <<"Here is the stack:">>
PaddedText == <<FenceOpen, "", "import * as cdk from 'aws-cdk-lib';", "", FenceClose>>

\* The position of the first tool_use block of a response, 0 if none.
FirstToolUse(response) ==
    IF \E i \in 1..Len(response) : response[i].type = "tool_use"
    THEN CHOOSE i \in 1..Len(response) :
            response[i].type = "tool_use"
            /\ \A j \in 1..(i - 1) : response[j].type # "tool_use"
    ELSE 0

\* A for loop that goes on after the first tool_use block.
VisitedWholeAnswer(response) == response

\* The blocks one pass of the for loop visits: all of them, or those up to
\* the first tool_use, where the loop breaks.
Visited(response) ==
    IF FirstToolUse(response) = 0 THEN response
    ELSE SubSeq(response, 1, FirstToolUse(response))

TextBlocks(blocks) == SelectSeq(blocks, LAMBDA b : b.type = "text")
TextsOf(blocks) == [i \in 1..Len(TextBlocks(blocks)) |-> TextBlocks(blocks)[i].text]

\* return f"Error: {str(e)}"
ErrorText(msg) == <<"Error: " \o msg>>

\* ------------------------------------------------------------------------
\* The workflow as a state machine

MaxTurns == 2

VARIABLES
    pc,        \* where the run is: a node of the graph, inside a node, or ended
    state,     \* the MigrationState passed from node to node
    wf,        \* the MigrationWorkflow instance: its two clients, current_project_name
    fs,        \* the files written under the project directory, by path
    gen,       \* the locals of generate_cdk_code while its loop runs
    vpc_info,  \* what the last call of get_vpc_info returned
    trace,     \* the external calls of the run, in order, with their outcomes
    stages,    \* the nodes the graph has run, in order, with the status each left
    result     \* what run_migration returned

vars == <<pc, state, wf, fs, gen, vpc_info, trace, stages, result>>

\* The inputs of run_migration
SourceConfigs ==
    { D([vpc_id |-> S(<<"v","1">>), region |-> S(<<"c","n","-","b","e","i","j","i","n","g">>)]),
      D([vpc_id |-> S(<<>>), region |-> S(<<"c","n","-","h","a","n","g","z","h","o","u">>)]),
      D([vpc_id |-> S(<<"v","1">>)]) }
ProjectNames == { <<"m","y","-","v","p","c">> }
TargetDirectories == { <<"o","u","t">>, <<".","/","o","u","t","p","u","t">> }

\* The provider's answers
ProviderVpc1 ==
    D([VpcId |-> S(<<"v","1">>), VpcName |-> S(<<"p","r","o","d","-","n","e","t">>), CidrBlock |-> S(<<"1","7","2",".","1","6",".","0",".","0","/","1","2">>),
       Status |-> S(<<"A","v","a","i","l","a","b","l","e">>),
       VSwitchIds |-> D([VSwitchId |-> L(<<S(<<"v","s","w","-","1">>), S(<<"v","s","w","-","2">>)>>)])])
ProviderVpc2 ==
    D([vpc_id |-> S(<<"v","2">>), vpc_name |-> S(<<"x","-","y">>), cidr_block |-> S(<<"1","0",".","1",".","0",".","0","/","1","6">>)])
ProviderJson ==
    { D([Vpcs |-> D([Vpc |-> L(<<ProviderVpc1>>)])]),
      D([body |-> D([vpcs |-> L(<<ProviderVpc2, ProviderVpc1>>)])]),
      D([vpcs |-> L(<<ProviderVpc2>>)]),
      D([vpcs |-> L(<<GetMockVpcData(<<"v","3">>, <<"c","n","-","h","a","n","g","z","h","o","u">>)>>)]),
      D([vpcs |-> L(<<D(EmptyDict)>>)]),
      D([vpcs |-> L(<<N(5)>>)]),
      D(EmptyDict),
      Null }
ToolOutcomes ==
    {ToolRaise, [kind |-> "none", val |-> Null], ToolText}
    \cup {[kind |-> "json", val |-> v] : v \in ProviderJson}

\* A record with one key removed
Without(f, key) == [x \in DOMAIN f \ {key} |-> f[x]]

\* The objects the parsing LLM answers with
LlmVpc ==
    [vpc_id |-> S(<<"v","1">>), vpc_name |-> S(<<"w","e","b","-","n","e","t">>), cidr_block |-> S(<<"1","0",".","2",".","0",".","0","/","1","6">>),
     region |-> S(<<"c","n","-","b","e","i","j","i","n","g">>), status |-> S(<<"A","v","a","i","l","a","b","l","e">>),
     vswitches |-> L(<<D([vswitch_id |-> S(<<"v","s","w","-","9">>), name |-> S(<<"w","e","b","-","a">>),
                          cidr_block |-> S(<<"1","0",".","2",".","1",".","0","/","2","4">>),
                          availability_zone |-> S(<<"c","n","-","b","e","i","j","i","n","g","-","a">>),
                          status |-> S(<<"A","v","a","i","l","a","b","l","e">>)])>>),
     security_groups |-> L(<<D([group_id |-> S(<<"s","g","-","9">>), name |-> S(<<"w","e","b","-","s","g">>),
                                description |-> S(<<"w","e","b">>),
                                rules |-> L(<<D([protocol |-> S(<<"t","c","p">>), port |-> S(<<"2","2">>),
                                                 source |-> S(<<"1","0",".","0",".","0",".","0","/","8">>)])>>)])>>)]
LlmGroup == LlmVpc.security_groups.l[1].d
LlmRule == LlmGroup.rules.l[1].d
LlmValues ==
    { D(LlmVpc), D(EmptyDict), L(<<>>),
      D(Without(LlmVpc, "vpc_name")), D(Without(LlmVpc, "cidr_block")),
      D(Without(LlmVpc, "vswitches")), D(Without(LlmVpc, "security_groups")),
      D([LlmVpc EXCEPT !.vswitches = L(<<D(Without(LlmVpc.vswitches.l[1].d, "availability_zone"))>>)]),
      D([LlmVpc EXCEPT !.security_groups = L(<<D(Without(LlmGroup, "group_id"))>>)]),
      D([LlmVpc EXCEPT !.security_groups =
            L(<<D([LlmGroup EXCEPT !.rules = L(<<D(Without(LlmRule, "port"))>>)])>>)]),
      D([LlmVpc EXCEPT !.security_groups =
            L(<<D([LlmGroup EXCEPT !.rules =
                      L(<<D([LlmRule EXCEPT !.port = S(<<"h","t","t","p">>)])>>)])>>)]) }
LlmOutcomes ==
    {LlmRaise, LlmEmbeddedBad, LlmNoJson}
    \cup {LlmJson(v) : v \in LlmValues} \cup {LlmEmbedded(D(LlmVpc))}
    \cup {[kind |-> "late", val |-> D(LlmVpc)]}

\* The model's answers in generate_cdk_code
Responses ==
    { <<Text(CodeText)>>, <<Text(BareText)>>, <<>>,
      <<ToolUse("tu1")>>, <<Text(ProseText), ToolUse("tu2"), Text(CodeText)>>,
      <<Text(PaddedText), ToolUse("tu3"), ToolUse("tu4")>> }

\* What a subprocess.run yields: it raises, or it returns this exit code.
SubprocessOutcomes == {"raise", "0", "1"}
Stderr == <<"e","r","r">>
Stdout == <<"d","o","n","e">>

\* A client attribute of the workflow: exists when the attribute is not None,
\* session when its self.session is not None, closed once cleanup() has run
\* exit_stack.aclose() on it.
NoClient == [exists |-> FALSE, session |-> FALSE, closed |-> FALSE]
NoGen == [response |-> <<>>, messages |-> <<>>, final_text |-> <<>>,
          assistant_message_content |-> <<>>, description |-> Null,
          turns |-> 0, text |-> <<"">>]

\* initial_state of run_migration
InitialState(source_vpc_config, target_project_name, target_directory) ==
    [source_vpc_config |-> source_vpc_config,
     target_project_name |-> target_project_name,
     target_directory |-> target_directory,
     alibaba_vpc_data |-> D(EmptyDict),
     transformed_data |-> D(EmptyDict),
     cdk_code |-> <<"">>,
     cdk_project_path |-> <<>>,
     deployment_result |-> D(EmptyDict),
     status |-> "started",
     error_message |-> <<>>]

\* Before run_migration is called there is no state.
NoState == [InitialState(D(EmptyDict), <<>>, <<>>) EXCEPT !.status = "none"]

\* MigrationWorkflow.__init__
Init ==
    /\ pc = "idle"
    /\ state = NoState
    /\ wf = [cdk_generator |-> NoClient, aliyun_client |-> NoClient,
             current_project_name |-> <<>>]
    /\ fs = EmptyDict
    /\ gen = NoGen
    /\ vpc_info = Null
    /\ trace = <<>>
    /\ stages = <<>>
    /\ result = NoState

Call(name, out) == [call |-> name, out |-> out]

\* A graph that ends after generate_cdk.
EdgeEndingAfterGenerate(node) ==
    CASE node = "extract_vpc" -> "transform_data"
      [] node = "transform_data" -> "generate_cdk"
      [] node = "generate_cdk" -> "END"
      [] node = "deploy_aws" -> "END"
      [] node = "handle_error" -> "END"

\* A graph whose edge from extract_vpc leads past transform_data.
EdgeSkippingTransform(node) ==
    CASE node = "extract_vpc" -> "generate_cdk"
      [] node = "transform_data" -> "generate_cdk"
      [] node = "generate_cdk" -> "deploy_aws"
      [] node = "deploy_aws" -> "END"
      [] node = "handle_error" -> "END"

\* The edges of _build_workflow: the node that runs after node.
Edge(node) ==
    CASE node = "extract_vpc" -> "transform_data"
      [] node = "transform_data" -> "generate_cdk"
      [] node = "generate_cdk" -> "deploy_aws"
      [] node = "deploy_aws" -> "END"
      [] node = "handle_error" -> "END"

\* A node returns new_state: the graph records it and follows the edge.
NodeReturns(node, new_state) ==
    /\ state' = new_state
    /\ stages' = Append(stages, [node |-> node, status |-> new_state.status])
    /\ pc' = Edge(node)

\* An except branch that also resets what the run has produced so far.
FailedResettingData(old_state, msg) ==
    [old_state EXCEPT !.error_message = msg, !.status = "error",
                      !.transformed_data = D(EmptyDict), !.cdk_code = <<"">>]

\* The except branch of a stage: error_message and status.
Failed(old_state, msg) == [old_state EXCEPT !.error_message = msg, !.status = "error"]

\* run_migration up to the start of the graph at its entry point
RunMigration ==
    /\ pc = "idle"
    /\ \E cfg \in SourceConfigs, name \in ProjectNames, dir \in TargetDirectories :
          state' = InitialState(cfg, name, dir)
    /\ pc' = "extract_vpc"
    /\ UNCHANGED <<wf, fs, gen, vpc_info, trace, stages, result>>

\* The status the extract stage leaves, on its try and its except path.
ExtractStatus(raised) == "vpc_extracted"

\* Node 1, extract_alibaba_vpc.  Its awaits are where a cancelled run gets
\* its asyncio.CancelledError, which no `except Exception` of the node or of
\* the client catches: in connect_to_server before self.session is assigned
\* ("cancel_early") or after it ("cancel"), and in call_tool.  wait_for is
\* no such place: the parsing coroutine has no await of its own, so it has
\* ended when the waiting run is resumed, and wait_for then returns its
\* result.  A cancelled node returns nothing: the state and the stages stay
\* as they are.
ExtractAlibabaVpc ==
    /\ pc = "extract_vpc"
    /\ \E ctor_ok \in BOOLEAN, conn \in {"ok", "early", "cancel_early", "cancel"},
          tool \in ToolOutcomes \cup {[kind |-> "cancel", val |-> Null]}, llm \in LlmOutcomes :
          LET creates == ~wf.aliyun_client.exists
              client == IF ~creates THEN wf.aliyun_client
                        ELSE IF ctor_ok
                        THEN [exists |-> TRUE, session |-> conn \in {"ok", "cancel"},
                              closed |-> FALSE]
                        ELSE NoClient
              vpc_id == RequestedVpcId(state.source_vpc_config)
              region == RequestedRegion(state.source_vpc_config)
              calls_tool == client.exists /\ client.session /\ conn \in {"ok", "early"}
              asks_llm == calls_tool /\ vpc_id # <<>> /\ tool.kind \in {"none", "text"}
              cancelled == conn \in {"cancel_early", "cancel"} \/ tool.kind = "cancel"
          IN  \* choices the run does not consult are fixed
              /\ creates \/ (ctor_ok /\ conn = "ok")
              /\ ctor_ok \/ conn = "ok"
              /\ calls_tool \/ tool = ToolRaise
              /\ client.closed => tool = ToolRaise
              /\ asks_llm \/ llm = LlmRaise
              /\ wf' = [wf EXCEPT !.aliyun_client = client]
              /\ trace' = trace
                    \o (IF creates
                        THEN <<Call("AliyunMCPClient", IF ctor_ok THEN "ok" ELSE "raise")>>
                        ELSE <<>>)
                    \o (IF creates /\ ctor_ok THEN <<Call("aliyun.connect", conn)>> ELSE <<>>)
                    \o (IF calls_tool THEN <<Call("aliyun.call_tool", tool.kind)>> ELSE <<>>)
                    \o (IF asks_llm THEN <<Call("bedrock.parse", llm.kind)>> ELSE <<>>)
              /\ IF cancelled
                 THEN /\ pc' = "cancelled"
                      /\ UNCHANGED <<state, stages, vpc_info>>
                 ELSE /\ vpc_info' = IF client.exists /\ vpc_id # <<>>
                                     THEN GetVpcInfo(client.session, tool, llm, vpc_id, region)
                                     ELSE vpc_info
                      /\ NodeReturns("extract_vpc",
                            [state EXCEPT
                                !.alibaba_vpc_data =
                                    ExtractedVpcData(client.exists, client.session, tool, llm,
                                                     state.source_vpc_config),
                                !.status = ExtractStatus(~client.exists)])
    /\ UNCHANGED <<fs, gen, result>>

\* Node 2, transform_vpc_data
TransformVpcData ==
    /\ pc = "transform_data"
    /\ LET r == TransformTry(state.alibaba_vpc_data) IN
       NodeReturns("transform_data",
          IF IsExc(r) THEN Failed(state, r.msg)
          ELSE [state EXCEPT !.transformed_data = r, !.status = "data_transformed"])
    /\ UNCHANGED <<wf, fs, gen, vpc_info, trace, result>>

ModelOutcomes ==
    {[ok |-> FALSE, content |-> <<>>]} \cup {[ok |-> TRUE, content |-> r] : r \in Responses}

\* A write that leaves a stack file alone when there is nothing to write.
WrittenUnlessEmpty(files, path, content) ==
    IF Len(path) >= 9 /\ SubSeq(path, Len(path) - 8, Len(path)) = <<"-","s","t","a","c","k",".","t","s">>
       /\ content = <<"">>
    THEN files
    ELSE [p \in DOMAIN files \cup {path} |-> IF p = path THEN content ELSE files[p]]

\* The file content after open(path, 'w') and write
Written(files, path, content) ==
    [p \in DOMAIN files \cup {path} |-> IF p = path THEN content ELSE files[p]]

\* A generate stage that goes on whatever exit code cdk init returned.
InitOkIgnoringExitCode(mkdir, init) == mkdir = "ok" /\ init # "raise"

\* The project directory was created and cdk init returned exit code 0:
\* otherwise the stage raises before the generator is looked at.
InitOk(mkdir, init) == mkdir = "ok" /\ init = "0"

\* Node 3, generate_cdk_project, up to the first answer of the model in
\* generate_cdk_code (or the failure that ends the stage or the call).  A
\* cancelled run gets its CancelledError in connect_to_cdk_server, before
\* self.session is assigned ("cancel_early") or after it ("cancel"), or in
\* list_tools; the node returns nothing then.  The locals of
\* generate_cdk_code are assigned in the order of the code: messages only
\* once list_tools has answered, final_text and assistant_message_content
\* only once the first invoke_model has.
GenerateCdkProject ==
    /\ pc = "generate_cdk"
    /\ \E mkdir \in {"ok", "raise"}, init \in SubprocessOutcomes, ctor_ok \in BOOLEAN,
          conn \in {"ok", "early", "cancel_early", "cancel"},
          tools \in {"ok", "raise", "cancel"},
          first \in ModelOutcomes :
          LET name == state.target_project_name
              init_ok == InitOk(mkdir, init)
              creates == init_ok /\ ~wf.cdk_generator.exists
              generator == IF ~creates THEN wf.cdk_generator
                           ELSE IF ctor_ok
                           THEN [exists |-> TRUE, session |-> conn \in {"ok", "cancel"},
                                 closed |-> FALSE]
                           ELSE NoClient
              has_generator == init_ok /\ generator.exists /\ conn \in {"ok", "early"}
              description == CreateCdkDescription(state.transformed_data, name)
              generates == has_generator /\ ~IsExc(description)
              lists == generates /\ generator.session
              invokes == lists /\ tools = "ok"
              cancelled == conn \in {"cancel_early", "cancel"} \/ tools = "cancel"
              calls == (IF mkdir = "ok" THEN <<Call("cdk_init", init)>> ELSE <<>>)
                    \o (IF creates
                        THEN <<Call("CDKCodeGenerator", IF ctor_ok THEN "ok" ELSE "raise")>>
                        ELSE <<>>)
                    \o (IF creates /\ ctor_ok THEN <<Call("cdk.connect", conn)>> ELSE <<>>)
                    \o (IF lists THEN <<Call("cdk.list_tools", tools)>> ELSE <<>>)
                    \o (IF invokes
                        THEN <<Call("bedrock.generate", IF first.ok THEN "ok" ELSE "raise")>>
                        ELSE <<>>)
          IN  \* choices the run does not consult are fixed
              /\ mkdir = "ok" \/ init = "0"
              /\ creates \/ (ctor_ok /\ conn = "ok")
              /\ ctor_ok \/ conn = "ok"
              /\ lists \/ tools = "ok"
              /\ (lists /\ generator.closed) => tools = "raise"
              /\ invokes \/ first = [ok |-> TRUE, content |-> <<>>]
              /\ wf' = [wf EXCEPT !.current_project_name = name,
                                  !.cdk_generator = generator]
              /\ trace' = trace \o calls
              /\ IF cancelled
                 THEN /\ pc' = "cancelled"
                      /\ gen' = NoGen
                      /\ UNCHANGED <<state, stages>>
                 ELSE IF ~generates
                 THEN /\ NodeReturns("generate_cdk",
                            Failed(state,
                               IF mkdir = "raise" THEN <<"[Errno 13] Permission denied">>
                               ELSE IF init = "raise"
                               THEN <<"[Errno 2] No such file or directory: 'cdk'">>
                               ELSE IF init # "0" THEN <<"CDK init failed: ", Stderr>>
                               ELSE IF ~generator.exists THEN <<"boto3 client failed">>
                               ELSE description.msg))
                      /\ gen' = NoGen
                 ELSE /\ gen' = [NoGen EXCEPT
                            !.description = description,
                            !.messages = IF invokes
                                         THEN <<[role |-> "user", content |-> <<>>,
                                                 id |-> "-"]>>
                                         ELSE <<>>,
                            !.response = IF invokes /\ first.ok THEN first.content ELSE <<>>,
                            !.turns = IF invokes THEN 1 ELSE 0,
                            !.text = IF ~generator.session
                                     THEN ErrorText("'NoneType' object has no attribute 'list_tools'")
                                     ELSE IF tools = "raise" THEN ErrorText("list_tools failed")
                                     ELSE IF ~first.ok THEN ErrorText("invoke_model failed")
                                     ELSE <<"">>]
                      /\ pc' = IF invokes /\ first.ok THEN "gen_loop" ELSE "gen_write"
                      /\ UNCHANGED <<state, stages>>
    /\ UNCHANGED <<fs, vpc_info, result>>

\* generate_cdk_code: one pass of the while loop over the model's answer.
\* Without a tool_use block the loop ends; with one, the tool is called,
\* the two messages are appended and the model is invoked again.  A run
\* cancelled while it awaits call_tool leaves generate_cdk_code and the node
\* with the CancelledError.  A call_tool that raises is met after the text
\* blocks before the tool_use were appended; an invoke_model that raises
\* leaves response and assistant_message_content as the pass built them.
GenerateCdkCodeTurn ==
    /\ pc = "gen_loop"
    /\ \E call \in {"ok", "raise", "cancel"}, next \in ModelOutcomes :
          LET t == FirstToolUse(gen.response)
              visited == Visited(gen.response)
              final_text == gen.final_text \o TextsOf(visited)
              content == gen.assistant_message_content \o visited
          IN  IF t = 0
              THEN /\ call = "ok" /\ next = [ok |-> TRUE, content |-> <<>>]
                   /\ gen' = [gen EXCEPT !.final_text = final_text,
                                         !.assistant_message_content = content,
                                         !.text = JoinTexts(final_text)]
                   /\ pc' = "gen_write"
                   /\ UNCHANGED trace
              ELSE IF call = "cancel"
              THEN /\ next = [ok |-> TRUE, content |-> <<>>]
                   /\ gen' = NoGen
                   /\ pc' = "cancelled"
                   /\ trace' = Append(trace, Call("cdk.call_tool", "cancel"))
              ELSE IF call = "raise"
              THEN /\ next = [ok |-> TRUE, content |-> <<>>]
                   /\ gen' = [gen EXCEPT !.final_text = final_text,
                                         !.assistant_message_content =
                                             @ \o SubSeq(gen.response, 1, t - 1),
                                         !.text = ErrorText("call_tool failed")]
                   /\ pc' = "gen_write"
                   /\ trace' = Append(trace, Call("cdk.call_tool", "raise"))
              ELSE /\ trace' = trace \o <<Call("cdk.call_tool", "ok"),
                                           Call("bedrock.generate",
                                                IF next.ok THEN "ok" ELSE "raise")>>
                   /\ gen' = [gen EXCEPT
                         !.final_text = final_text,
                         !.messages = @ \o <<[role |-> "assistant", content |-> content,
                                              id |-> "-"],
                                             [role |-> "user", content |-> <<>>,
                                              id |-> gen.response[t].id]>>,
                         !.response = IF next.ok THEN next.content ELSE @,
                         !.assistant_message_content = IF next.ok THEN <<>> ELSE content,
                         !.turns = @ + 1,
                         !.text = IF next.ok THEN <<"">> ELSE ErrorText("invoke_model failed")]
                   /\ pc' = IF next.ok THEN "gen_loop" ELSE "gen_write"
    /\ UNCHANGED <<state, wf, fs, vpc_info, stages, result>>

\* Node 3, generate_cdk_project, from the return of generate_cdk_code on: the
\* two files are written and the state is set.
GenerateCdkProjectFinish ==
    /\ pc = "gen_write"
    /\ \E stack_write \in {"ok", "raise"}, bin_write \in {"ok", "raise"} :
          LET name == state.target_project_name
              project_path == ProjectPath(state.target_directory, name)
              clean_code == ExtractTypescriptCode(gen.text)
              stack_written == IF stack_write = "ok"
                               THEN Written(fs, StackFile(project_path, name), clean_code)
                               ELSE fs
          IN  /\ stack_write = "ok" \/ bin_write = "ok"
              /\ fs' = IF stack_write = "ok" /\ bin_write = "ok"
                       THEN Written(stack_written, BinFile(project_path, name),
                                    BinContent(name))
                       ELSE stack_written
              /\ trace' = trace \o <<Call("write_stack", stack_write)>>
                    \o (IF stack_write = "ok" THEN <<Call("write_bin", bin_write)>> ELSE <<>>)
              /\ NodeReturns("generate_cdk",
                    IF stack_write = "ok" /\ bin_write = "ok"
                    THEN [state EXCEPT !.cdk_code = gen.text,
                                       !.cdk_project_path = project_path,
                                       !.status = "cdk_generated"]
                    ELSE Failed(state, <<"[Errno 2] No such file or directory">>))
    /\ gen' = NoGen
    /\ UNCHANGED <<wf, vpc_info, result>>

\* A deploy stage that sets status without storing deployment_result: the
\* variant that separates the two fields.
DeployStateStatusOnly(old_state, npm, bootstrap, deploy) ==
    [old_state EXCEPT !.status = "completed"]

\* A deploy stage that drops the generated code from the state it returns.
DeployStateDroppingCode(old_state, npm, bootstrap, deploy) ==
    [old_state EXCEPT !.cdk_code = <<"">>, !.status = "error"]

\* A deploy stage that raises on a non-zero exit of cdk bootstrap.
DeployStateBootstrapFatal(old_state, npm, bootstrap, deploy) ==
    IF npm = "0" /\ bootstrap = "0" /\ deploy = "0"
    THEN [old_state EXCEPT
            !.deployment_result =
                D([status |-> S(<<"d","e","p","l","o","y","e","d">>), output |-> S(Stdout),
                   project_path |-> S(PathStr(old_state.cdk_project_path))]),
            !.status = "completed"]
    ELSE IF npm = "0" /\ bootstrap = "1"
    THEN Failed(old_state, <<"CDK bootstrap failed: ", Stderr>>)
    ELSE Failed(old_state, <<"CDK deploy failed: ", Stderr>>)

\* The try block of deploy_to_aws with its except branch: the state returned.
DeployState(old_state, npm, bootstrap, deploy) ==
    IF npm = "raise" THEN Failed(old_state, <<"[Errno 2] No such file or directory: 'npm'">>)
    ELSE IF npm # "0" THEN Failed(old_state, <<"npm install failed: ", Stderr>>)
    ELSE IF bootstrap = "raise"
    THEN Failed(old_state, <<"[Errno 2] No such file or directory: 'cdk'">>)
    ELSE IF deploy = "raise"
    THEN Failed(old_state, <<"[Errno 2] No such file or directory: 'cdk'">>)
    ELSE IF deploy # "0" THEN Failed(old_state, <<"CDK deploy failed: ", Stderr>>)
    ELSE [old_state EXCEPT
            !.deployment_result =
                D([status |-> S(<<"d","e","p","l","o","y","e","d">>), output |-> S(Stdout),
                   project_path |-> S(PathStr(old_state.cdk_project_path))]),
            !.status = "completed"]

\* A deploy stage that runs cdk deploy a second time after a non-zero exit.
DeployCallsRetryingDeploy(npm, bootstrap, deploy) ==
    <<Call("npm_install", npm)>>
    \o (IF npm = "0" THEN <<Call("cdk_bootstrap", bootstrap)>> ELSE <<>>)
    \o (IF npm = "0" /\ bootstrap # "raise" THEN <<Call("cdk_deploy", deploy)>> ELSE <<>>)
    \o (IF npm = "0" /\ bootstrap # "raise" /\ deploy = "1"
        THEN <<Call("cdk_deploy", deploy)>> ELSE <<>>)

\* The subprocesses deploy_to_aws runs, in order: npm install; after a zero
\* exit of it cdk bootstrap; unless that could not be started, cdk deploy.
DeployCalls(npm, bootstrap, deploy) ==
    <<Call("npm_install", npm)>>
    \o (IF npm = "0" THEN <<Call("cdk_bootstrap", bootstrap)>> ELSE <<>>)
    \o (IF npm = "0" /\ bootstrap # "raise" THEN <<Call("cdk_deploy", deploy)>> ELSE <<>>)

\* Node 4, deploy_to_aws
DeployToAws ==
    /\ pc = "deploy_aws"
    /\ \E npm \in SubprocessOutcomes, bootstrap \in SubprocessOutcomes,
          deploy \in SubprocessOutcomes :
          \* choices the run does not consult are fixed
          /\ npm = "0" \/ (bootstrap = "0" /\ deploy = "0")
          /\ bootstrap # "raise" \/ deploy = "0"
          /\ trace' = trace \o DeployCalls(npm, bootstrap, deploy)
          /\ NodeReturns("deploy_aws", DeployState(state, npm, bootstrap, deploy))
    /\ UNCHANGED <<wf, fs, gen, vpc_info, result>>

\* A cleanup() without its try/except: every exception of aclose() escapes.
CleanupRaisesOnFailure(outcome) == outcome \in {"fail", "cancel"}

\* cleanup() of either client, by what exit_stack.aclose() does: it returns
\* ("ok"), it raises an Exception ("fail"), which `except Exception` catches
\* and logs, or it raises what is no Exception ("cancel": the
\* asyncio.CancelledError an await raises in a cancelled task), which escapes.
CleanupRaises(outcome) == outcome = "cancel"

\* The clients run_migration cleans up, in its order: those that exist.
CleanupOrder(w) ==
    SelectSeq(<<"cdk_generator", "aliyun_client">>, LAMBDA c : w[c].exists)

\* The cleanup calls made for the clients of order, up to the first that
\* raises: the calls, and the outcome that escaped ("ok" when none did).
Cleanups(order, outcomes) ==
    LET n == IF \E i \in 1..Len(order) : CleanupRaises(outcomes[order[i]])
             THEN CHOOSE i \in 1..Len(order) :
                     CleanupRaises(outcomes[order[i]])
                     /\ \A j \in 1..(i - 1) : ~CleanupRaises(outcomes[order[j]])
             ELSE 0
    IN  [calls |-> [i \in 1..(IF n = 0 THEN Len(order) ELSE n) |->
                       Call(order[i] \o ".cleanup", outcomes[order[i]])],
         raised |-> IF n = 0 THEN "ok" ELSE outcomes[order[n]]]

\* The instance after these cleanup calls: aclose() has run on the exit
\* stack of each client cleaned up.
Released(w, calls) ==
    [w EXCEPT
        !.cdk_generator.closed =
            @ \/ \E i \in 1..Len(calls) : calls[i].call = "cdk_generator.cleanup",
        !.aliyun_client.closed =
            @ \/ \E i \in 1..Len(calls) : calls[i].call = "aliyun_client.cleanup"]

\* run_migration after ainvoke returned final_state: the clients are cleaned
\* up and final_state is returned.  An Exception raised in the try block
\* leads to the except branch, which cleans up and re-raises; what is no
\* Exception leaves run_migration at once.
RunMigrationReturn ==
    /\ pc = "END"
    /\ \E outcomes \in [{"cdk_generator", "aliyun_client"} -> {"ok", "fail", "cancel"}] :
          LET try == Cleanups(CleanupOrder(wf), outcomes)
              except == Cleanups(CleanupOrder(wf), outcomes)
          IN  \* choices the run does not consult are fixed
              /\ \A c \in DOMAIN outcomes :
                    \/ outcomes[c] = "ok"
                    \/ \E i \in 1..Len(try.calls) : try.calls[i].call = c \o ".cleanup"
              /\ trace' = trace \o <<Call("ainvoke", "ok")>> \o try.calls
                             \o (IF try.raised = "fail" THEN except.calls ELSE <<>>)
              /\ wf' = Released(wf, try.calls)
              /\ pc' = IF try.raised = "ok" THEN "returned" ELSE "raised"
              /\ result' = IF try.raised = "ok" THEN state ELSE result
    /\ UNCHANGED <<state, fs, gen, vpc_info, stages>>

\* run_migration when ainvoke raises: an Exception is caught, the except
\* branch cleans up and re-raises; what is no Exception (the CancelledError
\* of a cancelled run, which a node the run was cancelled in lets through)
\* passes `except Exception` and no cleanup is called.
RunMigrationRaise ==
    /\ pc \in {"extract_vpc", "transform_data", "generate_cdk", "gen_loop", "gen_write",
               "deploy_aws", "cancelled"}
    /\ \E caught \in BOOLEAN,
          outcomes \in [{"cdk_generator", "aliyun_client"} -> {"ok", "fail", "cancel"}] :
          LET except == Cleanups(IF caught THEN CleanupOrder(wf) ELSE <<>>, outcomes)
          IN  /\ pc = "cancelled" => ~caught
              \* choices the run does not consult are fixed
              /\ \A c \in DOMAIN outcomes :
                    \/ outcomes[c] = "ok"
                    \/ \E i \in 1..Len(except.calls) : except.calls[i].call = c \o ".cleanup"
              /\ trace' = trace \o <<Call("ainvoke", "raise")>> \o except.calls
              /\ wf' = Released(wf, except.calls)
    /\ pc' = "raised"
    /\ UNCHANGED <<state, fs, gen, vpc_info, stages, result>>

\* ------------------------------------------------------------------------
\* The deploy stage run on a project that was deployed before

\* The state the generate stage leaves for a record the transform accepts.
GeneratedState(source_config, name, dir, data, code) ==
    [InitialState(source_config, name, dir) EXCEPT
        !.alibaba_vpc_data = data,
        !.transformed_data = TransformTry(data),
        !.cdk_code = code,
        !.cdk_project_path = ProjectPath(dir, name),
        !.status = "cdk_generated"]

\* The files the generate stage leaves for this code.
GeneratedFiles(name, dir, code) ==
    Written(Written(EmptyDict, StackFile(ProjectPath(dir, name), name),
                    ExtractTypescriptCode(code)),
            BinFile(ProjectPath(dir, name), name), BinContent(name))

\* deploy_to_aws is about to run on a project deployed before: on the state
\* a completed run returned (again), or on the state of a new run over the
\* same project.  The record is the fallback, the mock or one the LLM
\* parsed; the code is fenced, bare or the error text of a failed model call.
RedeployInit ==
    /\ pc = "deploy_aws"
    /\ \E cfg \in SourceConfigs, name \in ProjectNames, dir \in TargetDirectories,
          code \in { CodeText, BareText, ErrorText("invoke_model failed") },
          again \in BOOLEAN :
          \E data \in { FallbackVpcData,
                        GetMockVpcData(RequestedVpcId(cfg), RequestedRegion(cfg)),
                        D(LlmVpc) } :
             /\ state = IF again
                        THEN DeployState(GeneratedState(cfg, name, dir, data, code),
                                         "0", "0", "0")
                        ELSE GeneratedState(cfg, name, dir, data, code)
             /\ fs = GeneratedFiles(name, dir, code)
             /\ wf = [cdk_generator |-> [exists |-> TRUE, session |-> TRUE, closed |-> FALSE],
                      aliyun_client |-> [exists |-> TRUE, session |-> TRUE, closed |-> FALSE],
                      current_project_name |-> name]
    /\ gen = NoGen
    /\ vpc_info = Null
    /\ trace = <<>>
    /\ stages = <<>>
    /\ result = NoState

SpecRedeploy == RedeployInit /\ [][DeployToAws]_vars

Next ==
    \/ RunMigration
    \/ ExtractAlibabaVpc
    \/ TransformVpcData
    \/ GenerateCdkProject
    \/ (GenerateCdkCodeTurn /\ gen'.turns <= MaxTurns)
    \/ GenerateCdkProjectFinish
    \/ DeployToAws
    \/ RunMigrationReturn
    \/ RunMigrationRaise

Spec == Init /\ [][Next]_vars

\* ------------------------------------------------------------------------
\* run_migration called again on the instance of a run that has ended
\*
\* The earlier call has returned a state or has raised (an exception of a
\* cleanup after a failed graph, or the CancelledError of a cancelled run).
\* The instance keeps its clients and its project name and the files stay
\* where the earlier run wrote them; run_migration builds a new initial
\* state and starts the graph at its entry point.  trace starts anew with
\* the record of the earlier call.  There are two calls, one after the
\* other, and both have these arguments:
\* {"vpc_id": "v1", "region": "cn-beijing"}, "my-vpc", "out".
RunMigrationAgain ==
    /\ pc \in {"returned", "raised"}
    /\ \A i \in 1..Len(trace) : trace[i].call # "run_migration"
    /\ state' = InitialState(D([vpc_id |-> S(<<"v","1">>), region |-> S(<<"c","n","-","b","e","i","j","i","n","g">>)]),
                             <<"m","y","-","v","p","c">>, <<"o","u","t">>)
    /\ pc' = "extract_vpc"
    /\ gen' = NoGen
    /\ vpc_info' = Null
    /\ stages' = <<>>
    /\ result' = NoState
    /\ trace' = <<Call("run_migration", IF pc = "returned" THEN "ok" ELSE "raise")>>
    /\ UNCHANGED <<wf, fs>>

SecondRunNext ==
    \/ (RunMigration /\ state' = InitialState(D([vpc_id |-> S(<<"v","1">>),
                                                 region |-> S(<<"c","n","-","b","e","i","j","i","n","g">>)]),
                                              <<"m","y","-","v","p","c">>, <<"o","u","t">>))
    \/ ExtractAlibabaVpc
    \/ TransformVpcData
    \/ GenerateCdkProject
    \/ (GenerateCdkCodeTurn /\ gen'.turns <= MaxTurns)
    \/ GenerateCdkProjectFinish
    \/ DeployToAws
    \/ RunMigrationReturn
    \/ RunMigrationRaise
    \/ RunMigrationAgain

SpecSecondRun == Init /\ [][SecondRunNext]_vars

\* ------------------------------------------------------------------------
\* Two run_migration calls in flight on one MigrationWorkflow instance
\*
\* In this specification pc, state, gen, stages and result hold one value
\* per run; wf (the instance) and fs are shared.  A client of the instance
\* has a fourth field, stack: the contexts its exit stack holds, the last
\* entered last ("transport" for stdio_client, "session" for the
\* ClientSession); closed says that the exit of a context of the session it
\* holds has begun.  A step is the code a run
\* executes between two awaits that give the event loop to the other run;
\* pc[r] names the await run r is suspended in.  Awaits between which the
\* run neither reads nor writes the instance, the files or its state
\* (initialize and list_tools inside a connect) are passed in the step that
\* follows them.  The outside world is fixed: the provider answers text that
\* is not JSON, the LLM parses it, every subprocess exits 0 and the model
\* answers with the fenced code.  A request that is in flight when the
\* other run releases the session is answered or raises: the MCP library
\* decides, and both are allowed.

Runs == {1, 2}
ConcurrentConfig == D([vpc_id |-> S(<<"v","1">>), region |-> S(<<"c","n","-","b","e","i","j","i","n","g">>)])

ConcurrentInit ==
    /\ pc = [r \in Runs |-> "extract_vpc"]
    /\ state = [r \in Runs |->
                  InitialState(ConcurrentConfig, <<<<"m","y","-","v","p","c">>, <<"w","e","b","-","a","p","p">>>>[r], <<"o","u","t">>)]
    /\ wf = [cdk_generator |-> [exists |-> FALSE, session |-> FALSE,
                                closed |-> FALSE, stack |-> <<>>],
             aliyun_client |-> [exists |-> FALSE, session |-> FALSE,
                                closed |-> FALSE, stack |-> <<>>],
             current_project_name |-> <<>>]
    /\ fs = EmptyDict
    /\ gen = [r \in Runs |-> NoGen]
    /\ vpc_info = Null
    /\ trace = <<>>
    /\ stages = [r \in Runs |-> <<>>]
    /\ result = [r \in Runs |-> NoState]

\* A node of run r returns new_state and the graph follows the edge to next.
RunNodeReturns(r, node, new_state, next) ==
    /\ state' = [state EXCEPT ![r] = new_state]
    /\ stages' = [stages EXCEPT ![r] = Append(@, [node |-> node, status |-> new_state.status])]
    /\ pc' = [pc EXCEPT ![r] = next]

\* extract_alibaba_vpc finds no client: it stores a new one in the instance
\* and awaits stdio_client in connect_to_server.
ConcurrentExtractCreate ==
    \E r \in Runs :
       /\ pc[r] = "extract_vpc"
       /\ ~wf.aliyun_client.exists
       /\ wf' = [wf EXCEPT !.aliyun_client.exists = TRUE]
       /\ pc' = [pc EXCEPT ![r] = "extract_connect"]
       /\ UNCHANGED <<state, fs, gen, vpc_info, trace, stages, result>>

\* stdio_client is entered: the exit stack of the client holds the
\* transport, and connect_to_server awaits the entry of ClientSession.
ConcurrentExtractTransport ==
    \E r \in Runs :
       /\ pc[r] = "extract_connect"
       /\ wf' = [wf EXCEPT !.aliyun_client.stack = Append(@, "transport")]
       /\ pc' = [pc EXCEPT ![r] = "extract_session"]
       /\ UNCHANGED <<state, fs, gen, vpc_info, trace, stages, result>>

\* ClientSession is entered: the exit stack holds it too, connect_to_server
\* assigns self.session and awaits session.initialize().  A cleanup since
\* the entry of the transport has taken the transport from the exit stack
\* and begun its exit: this session reads and writes a transport that is
\* going.
ConcurrentExtractSession ==
    \E r \in Runs :
       /\ pc[r] = "extract_session"
       /\ wf' = [wf EXCEPT !.aliyun_client.session = TRUE,
                           !.aliyun_client.closed = (wf.aliyun_client.stack = <<>>),
                           !.aliyun_client.stack = Append(@, "session")]
       /\ pc' = [pc EXCEPT ![r] = "extract_initialize"]
       /\ UNCHANGED <<state, fs, gen, vpc_info, trace, stages, result>>

\* extract_alibaba_vpc from the client it finds in the instance, or from the
\* return of connect_to_server, up to the await of call_tool in
\* get_vpc_info.  A client without a session or with a released one raises
\* there: get_vpc_info returns the mock and the node returns in this step.
ConcurrentExtractCallTool ==
    \E r \in Runs :
       /\ \/ pc[r] = "extract_initialize"
          \/ pc[r] = "extract_vpc" /\ wf.aliyun_client.exists
       /\ IF wf.aliyun_client.session /\ ~wf.aliyun_client.closed
          THEN /\ pc' = [pc EXCEPT ![r] = "extract_call_tool"]
               /\ UNCHANGED <<state, stages>>
          ELSE RunNodeReturns(r, "extract_vpc",
                  [state[r] EXCEPT
                      !.alibaba_vpc_data =
                          ExtractedVpcData(TRUE, wf.aliyun_client.session, ToolRaise,
                                           LlmJson(D(LlmVpc)), state[r].source_vpc_config),
                      !.status = ExtractStatus(FALSE)],
                  "transform_data")
       /\ UNCHANGED <<wf, fs, gen, vpc_info, trace, result>>

\* call_tool returns its answer, which is not JSON: get_vpc_info awaits
\* asyncio.wait_for on the LLM parse.  If the call raises, get_vpc_info
\* returns the mock and the node returns.
ConcurrentExtractAnswered ==
    \E r \in Runs, answered \in BOOLEAN :
       /\ pc[r] = "extract_call_tool"
       /\ answered \/ wf.aliyun_client.closed
       /\ IF answered
          THEN /\ pc' = [pc EXCEPT ![r] = "extract_wait_for"]
               /\ UNCHANGED <<state, stages>>
          ELSE RunNodeReturns(r, "extract_vpc",
                  [state[r] EXCEPT
                      !.alibaba_vpc_data =
                          ExtractedVpcData(TRUE, TRUE, ToolRaise, LlmJson(D(LlmVpc)),
                                           state[r].source_vpc_config),
                      !.status = ExtractStatus(FALSE)],
                  "transform_data")
       /\ UNCHANGED <<wf, fs, gen, vpc_info, trace, result>>

\* wait_for returns the record the LLM parsed: get_vpc_info returns it, the
\* node stores it and returns.  The client is not consulted again.
ConcurrentExtractReturn ==
    \E r \in Runs :
       /\ pc[r] = "extract_wait_for"
       /\ RunNodeReturns(r, "extract_vpc",
             [state[r] EXCEPT
                 !.alibaba_vpc_data =
                     ExtractedVpcData(TRUE, TRUE, ToolText, LlmJson(D(LlmVpc)),
                                      state[r].source_vpc_config),
                 !.status = ExtractStatus(FALSE)],
             "transform_data")
       /\ UNCHANGED <<wf, fs, gen, vpc_info, trace, result>>

ConcurrentTransform ==
    \E r \in Runs :
       /\ pc[r] = "transform_data"
       /\ LET t == TransformTry(state[r].alibaba_vpc_data) IN
          RunNodeReturns(r, "transform_data",
             IF IsExc(t) THEN Failed(state[r], t.msg)
             ELSE [state[r] EXCEPT !.transformed_data = t, !.status = "data_transformed"],
             "generate_cdk")
       /\ UNCHANGED <<wf, fs, gen, vpc_info, trace, result>>

\* generate_cdk_project from the return of generate_cdk_code on: the two
\* files are written and the state is set; an exception of
\* _create_cdk_description ends the stage before the call.
ConcurrentGenerateReturns(r, description, text) ==
    LET name == state[r].target_project_name
        project_path == ProjectPath(state[r].target_directory, name)
    IN  /\ IF IsExc(description)
           THEN /\ fs' = fs
                /\ RunNodeReturns(r, "generate_cdk",
                      Failed(state[r], description.msg), "deploy_aws")
           ELSE /\ fs' = Written(Written(fs, StackFile(project_path, name),
                                         ExtractTypescriptCode(text)),
                                 BinFile(project_path, name), BinContent(name))
                /\ RunNodeReturns(r, "generate_cdk",
                      [state[r] EXCEPT !.cdk_code = text,
                                       !.cdk_project_path = project_path,
                                       !.status = "cdk_generated"],
                      "deploy_aws")
        /\ gen' = [gen EXCEPT ![r] = NoGen]

\* generate_cdk_project from _create_cdk_description up to the await of
\* list_tools in generate_cdk_code, on the generator held in generator.  A
\* generator without a session or with a released one raises there:
\* generate_cdk_code returns the error text and the node goes on to its
\* return in this step.
ConcurrentGenerateCall(r, description, generator) ==
    IF ~IsExc(description) /\ generator.session /\ ~generator.closed
    THEN /\ gen' = [gen EXCEPT ![r].description = description]
         /\ pc' = [pc EXCEPT ![r] = "gen_list_tools"]
         /\ UNCHANGED <<state, fs, stages>>
    ELSE ConcurrentGenerateReturns(r, description,
            IF ~generator.session
            THEN ErrorText("'NoneType' object has no attribute 'list_tools'")
            ELSE ErrorText("list_tools failed"))

\* generate_cdk_project up to its first await: the project name is stored in
\* the instance and cdk init is run; without a generator one is stored and
\* stdio_client awaited in connect_to_cdk_server, with one the description
\* is built at once and generate_cdk_code called.
ConcurrentGenerateBegin ==
    \E r \in Runs :
       /\ pc[r] = "generate_cdk"
       /\ IF ~wf.cdk_generator.exists
          THEN /\ wf' = [wf EXCEPT !.current_project_name = state[r].target_project_name,
                                   !.cdk_generator.exists = TRUE]
               /\ pc' = [pc EXCEPT ![r] = "gen_connect"]
               /\ UNCHANGED <<state, fs, gen, stages>>
          ELSE /\ wf' = [wf EXCEPT !.current_project_name = state[r].target_project_name]
               /\ ConcurrentGenerateCall(r,
                     CreateCdkDescription(state[r].transformed_data,
                                          state[r].target_project_name),
                     wf.cdk_generator)
       /\ UNCHANGED <<vpc_info, trace, result>>

\* stdio_client is entered: the exit stack of the generator holds the
\* transport, and connect_to_cdk_server awaits the entry of ClientSession.
ConcurrentGenerateTransport ==
    \E r \in Runs :
       /\ pc[r] = "gen_connect"
       /\ wf' = [wf EXCEPT !.cdk_generator.stack = Append(@, "transport")]
       /\ pc' = [pc EXCEPT ![r] = "gen_session"]
       /\ UNCHANGED <<state, fs, gen, vpc_info, trace, stages, result>>

\* ClientSession is entered: the exit stack holds it too,
\* connect_to_cdk_server assigns self.session and awaits
\* session.initialize().  A cleanup since the entry of the transport has
\* taken the transport from the exit stack and begun its exit.
ConcurrentGenerateSession ==
    \E r \in Runs :
       /\ pc[r] = "gen_session"
       /\ wf' = [wf EXCEPT !.cdk_generator.session = TRUE,
                           !.cdk_generator.closed = (wf.cdk_generator.stack = <<>>),
                           !.cdk_generator.stack = Append(@, "session")]
       /\ pc' = [pc EXCEPT ![r] = "gen_initialize"]
       /\ UNCHANGED <<state, fs, gen, vpc_info, trace, stages, result>>

\* connect_to_cdk_server returns: the description is built from the project
\* name the instance holds now and generate_cdk_code is called.
ConcurrentGenerateConnected ==
    \E r \in Runs :
       /\ pc[r] = "gen_initialize"
       /\ ConcurrentGenerateCall(r,
             CreateCdkDescription(state[r].transformed_data, wf.current_project_name),
             wf.cdk_generator)
       /\ UNCHANGED <<wf, vpc_info, trace, result>>

\* list_tools returns: the model is invoked and answers with the fenced
\* code, generate_cdk_code returns it and the node goes on to its return.
\* If list_tools raises, generate_cdk_code returns the error text.
ConcurrentGenerateCode ==
    \E r \in Runs, answered \in BOOLEAN :
       /\ pc[r] = "gen_list_tools"
       /\ answered \/ wf.cdk_generator.closed
       /\ ConcurrentGenerateReturns(r, gen[r].description,
             IF answered THEN CodeText ELSE ErrorText("list_tools failed"))
       /\ UNCHANGED <<wf, vpc_info, trace, result>>

\* deploy_to_aws holds no await: it runs in one step.
ConcurrentDeploy ==
    \E r \in Runs :
       /\ pc[r] = "deploy_aws"
       /\ RunNodeReturns(r, "deploy_aws", DeployState(state[r], "0", "0", "0"),
                         "cleanup_cdk")
       /\ UNCHANGED <<wf, fs, gen, vpc_info, trace, result>>

\* One round of the loop of AsyncExitStack.aclose() on a client whose exit
\* stack is not empty: the context entered last is taken from the stack and
\* its exit is awaited.  The session the client holds is that context or
\* reads and writes it: from here on it is released.
PopContext(client) ==
    [client EXCEPT !.stack = SubSeq(@, 1, Len(@) - 1),
                   !.closed = @ \/ client.session]

\* run_migration from the cleanup of the provider client on: aclose() takes
\* the next context from its exit stack and awaits its exit; once the stack
\* is empty aclose() returns and run_migration returns final_state.
ConcurrentCleanupClientFrom(r) ==
    IF wf.aliyun_client.stack # <<>>
    THEN /\ wf' = [wf EXCEPT !.aliyun_client = PopContext(@)]
         /\ pc' = [pc EXCEPT ![r] = "aclose_aliyun"]
         /\ UNCHANGED result
    ELSE /\ pc' = [pc EXCEPT ![r] = "returned"]
         /\ result' = [result EXCEPT ![r] = state[r]]
         /\ UNCHANGED wf

\* run_migration after ainvoke, or at the return of an exit that aclose() of
\* the generator awaited: aclose() takes the next context from the exit
\* stack of the generator and awaits its exit.  The loop goes on until the
\* stack is empty, so it also exits what a connect of the other run has
\* entered since the loop began.  Once the stack is empty aclose() returns
\* and the cleanup of the provider client begins in the same step.
ConcurrentCleanupGenerator ==
    \E r \in Runs :
       /\ pc[r] \in {"cleanup_cdk", "aclose_cdk"}
       /\ IF wf.cdk_generator.stack # <<>>
          THEN /\ wf' = [wf EXCEPT !.cdk_generator = PopContext(@)]
               /\ pc' = [pc EXCEPT ![r] = "aclose_cdk"]
               /\ UNCHANGED result
          ELSE ConcurrentCleanupClientFrom(r)
       /\ UNCHANGED <<state, fs, gen, vpc_info, trace, stages>>

\* The exit that aclose() of the provider client awaited returns: the loop
\* goes on as above.
ConcurrentCleanupClient ==
    \E r \in Runs :
       /\ pc[r] = "aclose_aliyun"
       /\ ConcurrentCleanupClientFrom(r)
       /\ UNCHANGED <<state, fs, gen, vpc_info, trace, stages>>

ConcurrentNext ==
    \/ ConcurrentExtractCreate
    \/ ConcurrentExtractTransport
    \/ ConcurrentExtractSession
    \/ ConcurrentExtractCallTool
    \/ ConcurrentExtractAnswered
    \/ ConcurrentExtractReturn
    \/ ConcurrentTransform
    \/ ConcurrentGenerateBegin
    \/ ConcurrentGenerateTransport
    \/ ConcurrentGenerateSession
    \/ ConcurrentGenerateConnected
    \/ ConcurrentGenerateCode
    \/ ConcurrentDeploy
    \/ ConcurrentCleanupGenerator
    \/ ConcurrentCleanupClient

SpecConcurrent == ConcurrentInit /\ [][ConcurrentNext]_vars

\* ------------------------------------------------------------------------
\* The LLM-assisted parsers on the texts the LLM can return
\*
\* A text is a sequence of tokens joined by blanks: the four delimiters, num
\* for the number 1, pair for the member "a":1 and word for a word of prose.

\* The texts an LLM answers, as sequences of tokens: braces and brackets, a
\* number (1), a member ("a": 1) and a word that is not JSON (x).
MaxTokens == 4

\* json.loads(text): the value, or the JSONDecodeError.
RECURSIVE JsonLoads(_)
JsonLoads(text) ==
    IF text = <<"num">> THEN N(1)
    ELSE IF text = <<"{", "}">> THEN D(EmptyDict)
    ELSE IF text = <<"{", "pair", "}">> THEN D([a |-> N(1)])
    ELSE IF Len(text) >= 2 /\ text[1] = "[" /\ text[Len(text)] = "]"
    THEN IF Len(text) = 2 THEN L(<<>>)
         ELSE IF IsExc(JsonLoads(SubSeq(text, 2, Len(text) - 1)))
         THEN JsonLoads(SubSeq(text, 2, Len(text) - 1))
         ELSE L(<<JsonLoads(SubSeq(text, 2, Len(text) - 1))>>)
    ELSE Exc("JSONDecodeError", <<"Expecting value">>)

\* The position of the first token equal to c, and of the last; 0 if none.
FirstIndex(text, c) ==
    IF \E i \in 1..Len(text) : text[i] = c
    THEN CHOOSE i \in 1..Len(text) : text[i] = c /\ \A j \in 1..(i - 1) : text[j] # c
    ELSE 0
LastIndex(text, c) ==
    IF \E i \in 1..Len(text) : text[i] = c
    THEN CHOOSE i \in 1..Len(text) : text[i] = c /\ \A j \in (i + 1)..Len(text) : text[j] # c
    ELSE 0

\* A search that stops at the first closing delimiter after the opening one.
DelimitedSpanToFirstClose(text, open, close) ==
    IF \E j \in (FirstIndex(text, open) + 1)..Len(text) :
          FirstIndex(text, open) # 0 /\ text[j] = close
    THEN SubSeq(text, FirstIndex(text, open),
                CHOOSE j \in (FirstIndex(text, open) + 1)..Len(text) :
                   text[j] = close
                   /\ \A k \in (FirstIndex(text, open) + 1)..(j - 1) : text[k] # close)
    ELSE <<>>

\* re.search of open, anything, close over the whole text: the span from
\* the first opening delimiter to the last closing one; <<>> without a match.
DelimitedSpan(text, open, close) ==
    IF FirstIndex(text, open) # 0 /\ LastIndex(text, close) > FirstIndex(text, open)
    THEN SubSeq(text, FirstIndex(text, open), LastIndex(text, close))
    ELSE <<>>

\* What the LLM call yields when it answers this text, for a parser that
\* searches for open and close.
LlmOutcomeOfText(text, open, close) ==
    IF ~IsExc(JsonLoads(text)) THEN LlmJson(JsonLoads(text))
    ELSE IF DelimitedSpan(text, open, close) = <<>> THEN LlmNoJson
    ELSE IF IsExc(JsonLoads(DelimitedSpan(text, open, close))) THEN LlmEmbeddedBad
    ELSE LlmEmbedded(JsonLoads(DelimitedSpan(text, open, close)))

\* _parse_vswitches_with_llm
ParseVswitchesWithLlm(llm) ==
    IF llm.kind \in {"json", "embedded", "late"} THEN llm.val ELSE L(<<>>)

\* A parser is about to be called: state holds the variant, whether the LLM
\* call answers, and the text it answers.
ParseInit ==
    /\ pc = "parse"
    /\ \E variant \in {"vpc", "vswitches"}, answered \in BOOLEAN,
          text \in UNION {[1..n -> {"{", "}", "[", "]", "num", "pair", "word"}]
                           : n \in 0..MaxTokens} :
          /\ answered \/ text = <<>>
          /\ state = [variant |-> variant, answered |-> answered, text |-> text]
    /\ wf = [cdk_generator |-> NoClient, aliyun_client |-> NoClient,
             current_project_name |-> <<>>]
    /\ fs = EmptyDict
    /\ gen = NoGen
    /\ vpc_info = Null
    /\ trace = <<>>
    /\ stages = <<>>
    /\ result = Null

\* _parse_vpc_data_with_llm(raw, "v1", "cn-beijing"), or
\* _parse_vswitches_with_llm(raw, "cn-beijing")
ParseWithLlm ==
    /\ pc = "parse"
    /\ result' = IF state.variant = "vpc"
                 THEN ParseVpcDataWithLlm(
                         IF state.answered THEN LlmOutcomeOfText(state.text, "{", "}")
                         ELSE LlmRaise,
                         RequestedVpcId(ConcurrentConfig), RequestedRegion(ConcurrentConfig))
                 ELSE ParseVswitchesWithLlm(
                         IF state.answered THEN LlmOutcomeOfText(state.text, "[", "]")
                         ELSE LlmRaise)
    /\ pc' = "parsed"
    /\ UNCHANGED <<state, wf, fs, gen, vpc_info, trace, stages>>

SpecParse == ParseInit /\ [][ParseWithLlm]_vars

\* ------------------------------------------------------------------------
\* _convert_alibaba_vpc_format on its own

MaxEntries == 3

\* The normalizer is about to be called: state holds the arguments and how
\* the document was put together. The collection lies under key, alone or
\* (decoy) beside another collection under a key probed later and a 'Vpcs'
\* object without 'Vpc'; the whole either bare or inside 'body' (envelope),
\* then beside a top-level collection.
ConvertInit ==
    /\ pc = "convert"
    /\ \E key \in {"Vpcs.Vpc", "vpcs", "Vpc", "Vpc object"},
          decoy \in BOOLEAN, envelope \in BOOLEAN,
          vpc_id \in {<<>>, <<"v","1">>},
          entries \in UNION {[1..n -> {ProviderVpc1, ProviderVpc2,
                                       D([vpc_id |-> S(<<"v","1">>), vpc_name |-> S(<<"w","e","b","-","n","e","t">>)]),
                                       D([VpcId |-> S(<<"V","1">>), VpcName |-> S(<<"u","p","p","e","r">>)])}]
                             : n \in 1..MaxEntries} :
          LET other == L(<<D([VpcId |-> S(<<"v","1">>), VpcName |-> S(<<"d","e","c","o","y">>)])>>)
              found == IF key = "Vpc object" THEN entries[1] ELSE L(entries)
              data ==
                 IF key = "Vpcs.Vpc"
                 THEN IF decoy
                      THEN D([Vpcs |-> D([Vpc |-> found]), vpcs |-> other, Vpc |-> other])
                      ELSE D([Vpcs |-> D([Vpc |-> found])])
                 ELSE IF key = "vpcs"
                 THEN IF decoy
                      THEN D([Vpcs |-> D([TotalCount |-> N(1)]), vpcs |-> found,
                              Vpc |-> other])
                      ELSE D([vpcs |-> found])
                 ELSE IF decoy
                      THEN D([Vpcs |-> D([TotalCount |-> N(1)]), Vpc |-> found])
                      ELSE D([Vpc |-> found])
          IN  /\ key = "Vpc object" => Len(entries) = 1
              /\ state = [key |-> key, decoy |-> decoy, envelope |-> envelope,
                          entries |-> entries, vpc_id |-> vpc_id,
                          region |-> <<"c","n","-","b","e","i","j","i","n","g">>,
                          alibaba_data |->
                             IF ~envelope THEN data
                             ELSE IF decoy THEN D([body |-> data, vpcs |-> other])
                             ELSE D([body |-> data])]
    /\ wf = [cdk_generator |-> NoClient, aliyun_client |-> NoClient,
             current_project_name |-> <<>>]
    /\ fs = EmptyDict
    /\ gen = NoGen
    /\ vpc_info = Null
    /\ trace = <<>>
    /\ stages = <<>>
    /\ result = Null

\* _convert_alibaba_vpc_format(alibaba_data, vpc_id, region)
ConvertFormat ==
    /\ pc = "convert"
    /\ result' = ConvertAlibabaVpcFormat(state.alibaba_data, state.vpc_id, state.region)
    /\ pc' = "converted"
    /\ UNCHANGED <<state, wf, fs, gen, vpc_info, trace, stages>>

SpecConvert == ConvertInit /\ [][ConvertFormat]_vars

\* ------------------------------------------------------------------------
\* transform_vpc_data on its own

MaxItems == 2

\* The transform stage is about to run on a record the extract stage stored:
\* a named VPC with up to MaxItems vswitches and one security group with up
\* to MaxItems rules (three items at most in all).  A vswitch carries one
\* of these zones or none ("absent"), a rule one of these ports: what a JSON
\* answer of the provider or of the parsing LLM can hold under the key.
TransformInit ==
    /\ pc = "transform_data"
    /\ \E name \in {S(<<"d","e","m","o","-","v","p","c">>), S(<<"a","-","b","-","c">>), S(<<"p","l","a","i","n">>)},
          zones \in UNION {[1..n -> { S(<<"c","n","-","h","a","n","g","z","h","o","u","-","a">>), S(<<"c","n","-","h","a","n","g","z","h","o","u","-","b">>),
                                      S(<<"c","n","-","b","e","i","j","i","n","g","-","a">>), S(<<>>), N(1), Null,
                                      L(<<S(<<"c","n","-","h","a","n","g","z","h","o","u","-","a">>)>>), D(EmptyDict),
                                      [k |-> "absent"] }] : n \in 0..MaxItems},
          ports \in UNION {[1..n -> { S(<<"8","0">>), S(<<"4","4","3">>), S(<<" ","4","4","3">>), S(<<"+","2","2">>),
                                      S(<<"8","_","0">>), S(<<"8", "0", "\n">>), S(<<"0","0","8","0">>),
                                      S(<<"U+0668", "U+0660">>),
                                      S(<<"U+00A0", "2", "2", "U+3000">>),
                                      S(<<"-","1">>), N(8080), B(TRUE),
                                      S(<<"h","t","t","p">>), S(<<>>), S(<<"8","0","/","8","0">>), S(<<"8"," ","0">>),
                                      S(<<"8","_","_","0">>), S(<<"U+00B2">>), Null, L(<<N(80)>>) }]
                           : n \in 0..MaxItems} :
          /\ Len(zones) + Len(ports) <= MaxItems + 1
          /\ state =
                [InitialState(D([vpc_id |-> S(<<"v","1">>)]), <<"m","y","-","v","p","c">>, <<"o","u","t">>) EXCEPT
                    !.status = "vpc_extracted",
                    !.alibaba_vpc_data =
                       D([vpc_id |-> S(<<"v","1">>), vpc_name |-> name,
                          cidr_block |-> S(<<"1","0",".","0",".","0",".","0","/","1","6">>),
                          vswitches |->
                             L([i \in 1..Len(zones) |->
                                  LET vswitch == [name |-> S(<<"d","e","m","o","-","s","u","b","n","e","t","-">> \o StrOfNat(i)),
                                                  cidr_block |-> S(<<"1","0",".","0",".">> \o StrOfNat(i) \o <<".","0","/","2","4">>),
                                                  availability_zone |-> zones[i]]
                                  IN  IF zones[i].k = "absent"
                                      THEN D(Without(vswitch, "availability_zone"))
                                      ELSE D(vswitch)]),
                          security_groups |->
                             L(<<D([group_id |-> S(<<"s","g","-","1">>), name |-> S(<<"d","e","m","o","-","s","g">>),
                                    rules |-> L([i \in 1..Len(ports) |->
                                                   D([protocol |-> S(<<"t","c","p">>),
                                                      port |-> ports[i],
                                                      source |-> S(<<"0",".","0",".","0",".","0","/","0">>)])])])>>)])]
    /\ wf = [cdk_generator |-> NoClient,
             aliyun_client |-> [exists |-> TRUE, session |-> TRUE, closed |-> FALSE],
             current_project_name |-> <<>>]
    /\ fs = EmptyDict
    /\ gen = NoGen
    /\ vpc_info = Null
    /\ trace = <<>>
    /\ stages = <<[node |-> "extract_vpc", status |-> "vpc_extracted"]>>
    /\ result = NoState

SpecTransform == TransformInit /\ [][TransformVpcData]_vars

\* ------------------------------------------------------------------------
\* The generate stage on its own, with conversations of up to four answers
\*
\* generate_cdk_project is about to run on the state the transform stage
\* leaves for the fallback record or for a record the LLM parsed; the
\* instance holds a generator of an earlier run, or none.
MaxConversationTurns == 4
GenerateInit ==
    /\ pc = "generate_cdk"
    /\ \E data \in {FallbackVpcData, D(LlmVpc)}, held \in BOOLEAN :
          /\ state = [InitialState(D([vpc_id |-> S(<<"v","1">>), region |-> S(<<"c","n","-","b","e","i","j","i","n","g">>)]),
                                   <<"m","y","-","v","p","c">>, <<"o","u","t">>)
                         EXCEPT !.alibaba_vpc_data = data,
                                !.transformed_data = TransformTry(data),
                                !.status = "data_transformed"]
          /\ wf = [cdk_generator |-> IF held
                                     THEN [exists |-> TRUE, session |-> TRUE, closed |-> FALSE]
                                     ELSE NoClient,
                   aliyun_client |-> [exists |-> TRUE, session |-> TRUE, closed |-> FALSE],
                   current_project_name |-> IF held THEN <<"m","y","-","v","p","c">> ELSE <<>>]
    /\ fs = EmptyDict
    /\ gen = NoGen
    /\ vpc_info = Null
    /\ trace = <<>>
    /\ stages = <<[node |-> "extract_vpc", status |-> "vpc_extracted"],
                  [node |-> "transform_data", status |-> "data_transformed"]>>
    /\ result = NoState

GenerateNext ==
    \/ GenerateCdkProject
    \/ (GenerateCdkCodeTurn /\ gen'.turns <= MaxConversationTurns)
    \/ GenerateCdkProjectFinish

SpecGenerate == GenerateInit /\ [][GenerateNext]_vars

\* ------------------------------------------------------------------------
\* MigrationOrchestrator.execute_migration

\* The statements of the try block of execute_migration, in order: the
\* method awaited, the server it looks up, the local its value goes to, the
\* value it returns for an empty content list, and the message of the
\* ValueError it raises when the server is not among self.servers.
Steps ==
    << [method |-> "_extract_source_config", server |-> "alibaba-cloud",
        local |-> "source_data", empty |-> D(EmptyDict),
        missing |-> "Alibaba Cloud MCP server not initialized"],
       [method |-> "_transform_data", server |-> "data-processor",
        local |-> "transformed_data", empty |-> D(EmptyDict),
        missing |-> "Data processor MCP server not initialized"],
       [method |-> "_generate_infrastructure_code", server |-> "aws-cdk",
        local |-> "infrastructure_code", empty |-> S(<<>>),
        missing |-> "AWS CDK MCP server not initialized"],
       [method |-> "_deploy_infrastructure", server |-> "aws-deploy",
        local |-> "deployment_result", empty |-> D(EmptyDict),
        missing |-> "AWS Deploy MCP server not initialized"] >>

\* execute_migration is about to run on an orchestrator whose servers (wf)
\* are any of the four; state holds the locals of execute_migration.
OrchestratorInit ==
    /\ pc = Steps[1].method
    /\ wf \in [servers : SUBSET {"alibaba-cloud", "data-processor", "aws-cdk", "aws-deploy"}]
    /\ state = [source_data |-> Null, transformed_data |-> Null,
                infrastructure_code |-> Null, deployment_result |-> Null]
    /\ fs = EmptyDict
    /\ gen = NoGen
    /\ vpc_info = Null
    /\ trace = <<>>
    /\ stages = <<>>
    /\ result = Null

\* One statement of the try block of execute_migration, up to the next
\* await of a server: the method looks up its server and raises without
\* one; call_tool raises, or answers a content list whose first text (or
\* the value for an empty list) becomes the local. After the last statement
\* the result is returned; an Exception leads to the except branch, which
\* awaits _rollback_migration (it holds no await) and re-raises.  A task
\* cancelled while it awaits call_tool gets an asyncio.CancelledError there,
\* which is no Exception: it passes `except Exception` and leaves
\* execute_migration without _rollback_migration.
ExecuteMigrationStep ==
    \E i \in 1..Len(Steps), content \in {"text", "empty", "raise", "cancel"} :
       LET has == Steps[i].server \in wf.servers
           ok == has /\ content \in {"text", "empty"}
           caught == ~ok /\ ~(has /\ content = "cancel")
           locals == [state EXCEPT ![Steps[i].local] =
                         IF content = "text" THEN S(<<"r","e","s","u","l","t">>) ELSE Steps[i].empty]
       IN  /\ pc = Steps[i].method
           /\ has \/ content = "raise"
           /\ state' = IF ok THEN locals ELSE state
           /\ trace' = trace \o <<Call(Steps[i].method,
                                       IF ok THEN "ok" ELSE IF caught THEN "raise" ELSE "cancel")>>
                         \o (IF caught THEN <<Call("_rollback_migration", "ok")>> ELSE <<>>)
           /\ pc' = IF ~ok THEN "raised"
                    ELSE IF i = Len(Steps) THEN "returned" ELSE Steps[i + 1].method
           /\ result' = IF ~has THEN Exc("ValueError", <<Steps[i].missing>>)
                        ELSE IF content = "raise" THEN Exc("RuntimeError", <<"call_tool failed">>)
                        ELSE IF content = "cancel" THEN Exc("CancelledError", <<>>)
                        ELSE IF i = Len(Steps)
                        THEN D([status |-> S(<<"s","u","c","c","e","s","s">>),
                                source_data |-> locals.source_data,
                                transformed_data |-> locals.transformed_data,
                                infrastructure_code |-> locals.infrastructure_code,
                                deployment_result |-> locals.deployment_result])
                        ELSE result
           /\ UNCHANGED <<wf, fs, gen, vpc_info, stages>>

SpecOrchestrator == OrchestratorInit /\ [][ExecuteMigrationStep]_vars


\* ------------------------------------------------------------------------
\* Properties of the workflow

\* The run has made this external call with this outcome.
Called(name, out) == \E i \in 1..Len(trace) : trace[i] = Call(name, out)
\* The run has made one of these external calls.
CalledAny(names) == \E i \in 1..Len(trace) : trace[i].call \in names

Subprocesses == {"cdk_init", "npm_install", "cdk_bootstrap", "cdk_deploy"}
GenerationCalls == {"cdk.list_tools", "cdk.call_tool", "bedrock.generate"}
HardStages == {"transform_data", "generate_cdk", "deploy_aws"}

\* C1: once the transform, generate or deploy stage has ended with status
\* error, no later stage executes; in particular after a transform failure
\* no subprocess is invoked and no code-generation call is made.
C1_NoStageAfterError ==
    \A i \in 1..Len(stages) :
        (stages[i].node \in HardStages /\ stages[i].status = "error")
        => /\ i = Len(stages)
           /\ stages[i].node = "transform_data"
                 => ~CalledAny(Subprocesses \cup GenerationCalls)

\* C2: error is terminal: a stage that follows a stage left in status error
\* leaves status error too, and the state run_migration returns has status
\* error whenever the transform, generate or deploy stage failed.
C2_ErrorIsTerminal ==
    /\ \A i, j \in 1..Len(stages) :
          (i < j /\ stages[i].status = "error") => stages[j].status = "error"
    /\ (pc = "returned"
        /\ \E i \in 1..Len(stages) :
              stages[i].node \in HardStages /\ stages[i].status = "error")
       => result.status = "error"

\* The client was constructed in this run.
Created(c) ==
    Called(IF c = "aliyun_client" THEN "AliyunMCPClient" ELSE "CDKCodeGenerator", "ok")
\* cleanup() of the client was called after ainvoke ended.
CleanedUp(c) ==
    \E i, j \in 1..Len(trace) :
        i < j /\ trace[i].call = "ainvoke" /\ trace[j].call = c \o ".cleanup"

\* C3: when run_migration has returned a state or raised, cleanup has been
\* called on every client the run created, after the graph ended.
C3_CleanupBeforeReturn ==
    pc \in {"returned", "raised"}
    => \A c \in {"cdk_generator", "aliyun_client"} :
          Created(c) => (CleanedUp(c) /\ wf[c].closed)

\* C4: a failure inside a cleanup is swallowed: after a cleanup whose
\* aclose() raised an Exception the cleanup of the other client still runs,
\* run_migration raises only when ainvoke raised or the run was cancelled in
\* a cleanup, and the state returned is the final state of the graph, status
\* and error_message included.
C4_CleanupFailureSwallowed ==
    (\E i \in 1..Len(trace) : trace[i].out = "fail")
    => /\ pc \in {"returned", "raised"}
       /\ pc = "raised"
             <=> (Called("ainvoke", "raise")
                  \/ \E i \in 1..Len(trace) : trace[i].out = "cancel")
       /\ pc = "returned"
             => /\ result.status = state.status
                /\ result.error_message = state.error_message
                /\ result.status = stages[Len(stages)].status
       /\ Called("cdk_generator.cleanup", "fail") /\ wf.aliyun_client.exists
             => CleanedUp("aliyun_client")

\* A completed run whose first cleanup failed and whose second still ran.
C4_Witness ==
    /\ pc = "returned"
    /\ Called("cdk_generator.cleanup", "fail")
    /\ Called("aliyun_client.cleanup", "ok")
    /\ result.status = "completed"

\* C5: the extract stage always ends with status vpc_extracted and a
\* populated (non-empty) alibaba_vpc_data.
C5_ExtractAlwaysPopulated ==
    Len(stages) >= 1
    => /\ stages[1] = [node |-> "extract_vpc", status |-> "vpc_extracted"]
       /\ IsDict(state.alibaba_vpc_data)
       /\ Truthy(state.alibaba_vpc_data)

\* The provider returned JSON, and the scaffold, the code generation, the
\* dependency install and the deploy succeeded.
AllStagesSucceeded ==
    /\ Called("aliyun.call_tool", "json")
    /\ Len(stages) = 4
    /\ stages[2].status = "data_transformed"
    /\ stages[3].status = "cdk_generated"
    /\ Called("cdk_init", "0") /\ Called("npm_install", "0") /\ Called("cdk_deploy", "0")

\* C6: a run in which every stage succeeded returns status completed, and a
\* returned state has status completed exactly when its
\* deployment_result.status is "deployed".
C6_CompletedIffDeployed ==
    pc = "returned"
    => /\ (result.status = "completed")
             <=> (Get(result.deployment_result, "status") = S(<<"d","e","p","l","o","y","e","d">>))
       /\ AllStagesSucceeded => result.status = "completed"

\* A returned run over the provider's own record in which every stage
\* succeeded.
C6_Witness ==
    /\ pc = "returned"
    /\ AllStagesSucceeded
    /\ Get(result.alibaba_vpc_data, "vpc_name") = S(<<"p","r","o","d","-","n","e","t">>)
    /\ Get(result.deployment_result, "status") = S(<<"d","e","p","l","o","y","e","d">>)

\* The record the extract stage stored is one of its synthetic records: the
\* fallback of its exception handler, or the mock for the request.
StoredSynthetic ==
    \/ state.alibaba_vpc_data = FallbackVpcData
    \/ state.alibaba_vpc_data =
          GetMockVpcData(RequestedVpcId(state.source_vpc_config),
                         RequestedRegion(state.source_vpc_config))

\* The two rules of a synthetic security group: ports 80 and 443 from
\* 0.0.0.0/0.
TwoOpenRules(rules) ==
    /\ IsList(rules) /\ Len(rules.l) = 2
    /\ Get(rules.l[1], "port") = S(<<"8","0">>) /\ Get(rules.l[2], "port") = S(<<"4","4","3">>)
    /\ \A i \in 1..2 : Get(rules.l[i], "source") = S(<<"0",".","0",".","0",".","0","/","0">>)

\* C7: every synthetic record the extract stage stores carries the
\* requested id (the fixed mock id when none was requested) and the
\* requested region, two subnets and one security group with the two rules.
C7_SyntheticCarriesRequest ==
    (Len(stages) >= 1 /\ StoredSynthetic)
    => LET d == state.alibaba_vpc_data
           vpc_id == RequestedVpcId(state.source_vpc_config)
       IN  /\ Get(d, "vpc_id") = S(IF vpc_id # <<>> THEN vpc_id ELSE MockVpcId)
           /\ Get(d, "region") = S(RequestedRegion(state.source_vpc_config))
           /\ IsList(Get(d, "vswitches")) /\ Len(Get(d, "vswitches").l) = 2
           /\ IsList(Get(d, "security_groups")) /\ Len(Get(d, "security_groups").l) = 1
           /\ TwoOpenRules(Get(Get(d, "security_groups").l[1], "rules"))

\* C8: what get_vpc_info returns is a record in which vswitches and
\* security_groups are present as sequences.
C8_VpcInfoHasSequences ==
    vpc_info # Null
    => /\ IsDict(vpc_info)
       /\ IsList(Get(vpc_info, "vswitches"))
       /\ IsList(Get(vpc_info, "security_groups"))

\* v is a dict without one of these keys.
Lacks(v, keys) == IsDict(v) /\ ~(keys \subseteq DOMAIN v.d)
\* One of the items of the list under key is a dict without one of these
\* keys.
ItemLacks(v, key, keys) ==
    /\ IsDict(v) /\ key \in DOMAIN v.d /\ IsList(v.d[key])
    /\ \E i \in 1..Len(v.d[key].l) : Lacks(v.d[key].l[i], keys)

\* The source record lacks a field the transform reads.
LacksTransformField(d) ==
    \/ Lacks(d, {"vpc_name", "cidr_block", "vswitches", "security_groups"})
    \/ ItemLacks(d, "vswitches", {"name", "cidr_block", "availability_zone"})
    \/ ItemLacks(d, "security_groups", {"name", "group_id", "rules"})
    \/ /\ IsDict(d) /\ "security_groups" \in DOMAIN d.d /\ IsList(d.d.security_groups)
       /\ \E i \in 1..Len(d.d.security_groups.l) :
             ItemLacks(d.d.security_groups.l[i], "rules", {"protocol", "port", "source"})

\* C9: when the source record lacks a field the transform reads, the
\* transform stage ends with status error and a non-empty error_message,
\* and the state run_migration returns has status error and a non-empty
\* error_message.
C9_MissingFieldAbortsRun ==
    (Len(stages) >= 2 /\ LacksTransformField(state.alibaba_vpc_data))
    => /\ stages[2].status = "error"
       /\ pc = "generate_cdk" => state.error_message # <<>>
       /\ pc = "returned" => (result.status = "error" /\ result.error_message # <<>>)

\* C10: when the model invocation, the tool listing or the tool call fails
\* inside generate_cdk_code, the call is not retried and the generate stage
\* ends with status error.
C10_GenerationFailurePropagates ==
    \A i \in 1..Len(trace) :
        (trace[i].call \in GenerationCalls /\ trace[i].out = "raise")
        => /\ \A j \in (i + 1)..Len(trace) : trace[j].call \notin GenerationCalls
           /\ Len(stages) >= 3 => stages[3].status = "error"

\* C11: in the deploy stage only a non-zero exit of cdk deploy is fatal: after
\* a non-zero exit of npm install the bootstrap and deploy commands are still
\* run, and the stage does not end with status error because of it.
C11_OnlyDeployExitIsFatal ==
    Called("npm_install", "1")
    => /\ CalledAny({"cdk_bootstrap"})
       /\ CalledAny({"cdk_deploy"})
       /\ Called("cdk_deploy", "0") => stages[Len(stages)].status # "error"

\* C12: when cdk init exits non-zero the generate stage ends with status
\* error and an error_message that carries the captured stderr; no code
\* generator is constructed or connected, no tool listing, tool call or model
\* invocation is made, and no file is written.
C12_InitFailureStopsGenerate ==
    Called("cdk_init", "1")
    => /\ Len(stages) >= 3 /\ stages[3].status = "error"
       /\ pc = "deploy_aws" => state.error_message = <<"CDK init failed: ", Stderr>>
       /\ ~CalledAny({"CDKCodeGenerator", "cdk.connect"} \cup GenerationCalls)
       /\ ~CalledAny({"write_stack", "write_bin"})
       /\ fs = EmptyDict

\* A generate stage that has just failed at cdk init after a successful
\* transform.
C12_Witness ==
    /\ pc = "deploy_aws"
    /\ Called("cdk_init", "1")
    /\ stages[2].status = "data_transformed"
    /\ state.status = "error"

\* C13: when the generate stage ends with status cdk_generated, the stack
\* file holds the extracted code and the entry-point file the template, both
\* written whole in that stage, and the class the entry point imports and
\* instantiates is the class the description required, both computed from
\* the run's target_project_name.
C13_GeneratedFilesMatchClassName ==
    LET name == state.target_project_name
        path == ProjectPath(state.target_directory, name)
    IN  /\ pc \in {"gen_loop", "gen_write"}
              => /\ gen.description.class_name = ClassName(name)
                 /\ wf.current_project_name = name
        /\ (Len(stages) >= 3 /\ stages[3].status = "cdk_generated")
              => /\ state.cdk_project_path = path
                 /\ DOMAIN fs = {StackFile(path, name), BinFile(path, name)}
                 /\ fs[StackFile(path, name)] = ExtractTypescriptCode(state.cdk_code)
                 /\ fs[BinFile(path, name)].import_class = ClassName(name)
                 /\ fs[BinFile(path, name)].new_class = ClassName(name)
                 /\ name = <<"m","y","-","v","p","c">> => fs[BinFile(path, name)].new_class = <<"M","y","V","p","c","S","t","a","c","k">>

\* A generate stage that ended with cdk_generated on code the model gave.
C13_Witness ==
    /\ Len(stages) >= 3 /\ stages[3].status = "cdk_generated"
    /\ state.cdk_code = CodeText
    /\ DOMAIN fs # {}

\* C14: the deploy stage run on a project that was deployed before ends
\* with status completed and deployment_result.status "deployed", or with
\* status error; it writes no file and leaves cdk_code, cdk_project_path and
\* transformed_data as they were.
C14_RedeployKeepsFilesAndCode ==
    [][(pc = "deploy_aws" /\ pc' = "END")
       => /\ \/ /\ state'.status = "completed"
                /\ Get(state'.deployment_result, "status") = S(<<"d","e","p","l","o","y","e","d">>)
             \/ state'.status = "error"
          /\ fs' = fs
          /\ state'.cdk_code = state.cdk_code
          /\ state'.cdk_project_path = state.cdk_project_path
          /\ state'.transformed_data = state.transformed_data]_vars

\* The deploy stage has run again on a deployed project and reported
\* "deployed" again, the files in place.
C14_Witness ==
    /\ pc = "END"
    /\ stages = <<[node |-> "deploy_aws", status |-> "completed"]>>
    /\ Called("cdk_deploy", "0")
    /\ Get(state.deployment_result, "status") = S(<<"d","e","p","l","o","y","e","d">>)
    /\ DOMAIN fs # {}

\* out is src with each hyphen turned into an underscore, nothing else changed.
HyphensReplaced(src, out) ==
    /\ Len(out) = Len(src)
    /\ \A i \in 1..Len(src) : out[i] = (IF src[i] = "-" THEN "_" ELSE src[i])

\* The target rule of a source rule: one port, int() of the source port,
\* for both bounds (for a port written in plain digits the number those
\* digits spell), and the source as the only CIDR block.
RuleKept(rule, out) ==
    /\ out.d.from_port = out.d.to_port
    /\ out.d.from_port = IntOf(rule.d.port)
    /\ out.d.from_port.k = "int"
    /\ (/\ rule.d.port.k = "str"
        /\ Len(rule.d.port.s) > 0
        /\ rule.d.port.s[1] # "0"
        /\ \A i \in 1..Len(rule.d.port.s) :
              \E n \in 0..9 : <<"0","1","2","3","4","5","6","7","8","9">>[n + 1] = rule.d.port.s[i])
       => StrOfNat(out.d.from_port.n) = rule.d.port.s
    /\ out.d.cidr_blocks = L(<<rule.d.source>>)
    /\ out.d.protocol = rule.d.protocol

SubnetKept(vswitch, out) ==
    /\ HyphensReplaced(vswitch.d.name.s, out.d.name.s)
    /\ out.d.cidr = vswitch.d.cidr_block

GroupKept(sg, out) ==
    /\ HyphensReplaced(sg.d.name.s, out.d.name.s)
    /\ Len(out.d.ingress_rules.l) = Len(Elems(sg.d.rules))
    /\ \A i \in 1..Len(Elems(sg.d.rules)) :
          RuleKept(Elems(sg.d.rules)[i], out.d.ingress_rules.l[i])

Transformed == Len(stages) >= 2 /\ stages[2].status = "data_transformed"

\* The i-th vswitch of the stored source record and the i-th target subnet.
SourceZone(i) == Elems(state.alibaba_vpc_data.d.vswitches)[i].d.availability_zone
TargetZone(i) == state.transformed_data.d.subnets.l[i].d.availability_zone

\* Every vswitch of the record is a dict that carries a zone.
EveryVswitchHasZone(d) ==
    /\ IsDict(d) /\ "vswitches" \in DOMAIN d.d /\ IsList(d.d.vswitches)
    /\ \A i \in 1..Len(d.d.vswitches.l) :
          /\ IsDict(d.d.vswitches.l[i])
          /\ "availability_zone" \in DOMAIN d.d.vswitches.l[i].d

\* The record with the zone of every vswitch replaced by one of the table.
WithTableZones(d) ==
    D([d.d EXCEPT !.vswitches =
          L([i \in 1..Len(d.d.vswitches.l) |->
               D([d.d.vswitches.l[i].d EXCEPT !.availability_zone = S(<<"c","n","-","h","a","n","g","z","h","o","u","-","a">>)])])])

\* C16: the transform maps the zone of each subnet through a fixed table:
\* cn-hangzhou-a to us-east-1a, cn-hangzhou-b to us-east-1b, every other
\* zone to the default us-east-1a; a zone that is present but not in the
\* table never makes the transform fail: a record the transform rejects
\* is rejected as well with every zone replaced by one of the table.
C16_ZoneTableWithDefault ==
    /\ Transformed
       => \A i \in 1..Len(state.transformed_data.d.subnets.l) :
             /\ SourceZone(i) = S(<<"c","n","-","h","a","n","g","z","h","o","u","-","a">>) => TargetZone(i) = S(<<"u","s","-","e","a","s","t","-","1","a">>)
             /\ SourceZone(i) = S(<<"c","n","-","h","a","n","g","z","h","o","u","-","b">>) => TargetZone(i) = S(<<"u","s","-","e","a","s","t","-","1","b">>)
             /\ SourceZone(i) \notin {S(<<"c","n","-","h","a","n","g","z","h","o","u","-","a">>), S(<<"c","n","-","h","a","n","g","z","h","o","u","-","b">>)}
                   => TargetZone(i) = S(<<"u","s","-","e","a","s","t","-","1","a">>)
    /\ (Len(stages) >= 2 /\ stages[2].status = "error"
           /\ EveryVswitchHasZone(state.alibaba_vpc_data))
       => IsExc(TransformTry(WithTableZones(state.alibaba_vpc_data)))

\* The number of blocks of a model answer that request a tool.
ToolRequests(response) ==
    Cardinality({i \in 1..Len(response) : response[i].type = "tool_use"})
\* The number of tool calls among the external calls from position n + 1 on.
ToolCallsAfter(calls, n) ==
    Cardinality({i \in (n + 1)..Len(calls) : calls[i].call = "cdk.call_tool"})

\* C17: in generate_cdk_code every tool request of a model answer is
\* executed exactly once before the model is invoked again: a pass of the
\* loop in which no tool call fails makes as many tool calls as the answer
\* holds tool requests.
C17_EveryToolRequestExecuted ==
    [][(pc = "gen_loop" /\ pc' \in {"gen_loop", "gen_write"}
          /\ ~(\E i \in (Len(trace) + 1)..Len(trace') :
                  trace'[i] = Call("cdk.call_tool", "raise")))
       => ToolCallsAfter(trace', Len(trace)) = ToolRequests(gen.response)]_vars

\* Lines a..b of the text are its first typescript block: line a is the
\* first typescript fence, line b the first fence after it.
FirstBlock(text, a, b) ==
    /\ a < b
    /\ text[a] = FenceOpen /\ HasFence(text[b])
    /\ \A c \in 1..(a - 1) : text[c] # FenceOpen
    /\ \A c \in (a + 1)..(b - 1) : ~HasFence(text[c])

HasTypescriptBlock(text) == \E a, b \in 1..Len(text) : FirstBlock(text, a, b)

\* out is what lies strictly between lines a and b, without the blank lines
\* at its two ends.
TrimmedBetween(text, a, b, out) ==
    IF \A k \in (a + 1)..(b - 1) : text[k] = ""
    THEN out = <<"">>
    ELSE \E lo, hi \in (a + 1)..(b - 1) :
            /\ text[lo] # "" /\ text[hi] # ""
            /\ \A k \in (a + 1)..(b - 1) : text[k] # "" => (lo <= k /\ k <= hi)
            /\ out = SubSeq(text, lo, hi)

Generated == Len(stages) >= 3 /\ stages[3].status = "cdk_generated"
WrittenStack ==
    fs[StackFile(ProjectPath(state.target_directory, state.target_project_name),
                 state.target_project_name)]

\* C18: when the raw generation result holds a typescript block, the stack
\* file holds exactly the trimmed contents of the first such block, nothing
\* from outside it, and not the raw result, which stays in cdk_code.
C18_StackFileIsFirstBlock ==
    (Generated /\ HasTypescriptBlock(state.cdk_code))
    => /\ \E a, b \in 1..Len(state.cdk_code) :
             /\ FirstBlock(state.cdk_code, a, b)
             /\ TrimmedBetween(state.cdk_code, a, b, WrittenStack)
       /\ WrittenStack # state.cdk_code
       /\ \A i \in 1..Len(WrittenStack) : ~HasFence(WrittenStack[i])

\* The raw result held two typescript blocks, the first padded with blank
\* lines; the stack file holds the one line of the first.
C18_Witness ==
    /\ Generated
    /\ state.cdk_code = PaddedText \o CodeText
    /\ WrittenStack = <<"import * as cdk from 'aws-cdk-lib';">>

\* The business fields of a workflow state.
BusinessFields(s) ==
    <<s.alibaba_vpc_data, s.transformed_data, s.cdk_code, s.cdk_project_path,
      s.deployment_result>>
\* A stage of the run has ended with status error.
Errored == \E i \in 1..Len(stages) : stages[i].status = "error"

\* C19: once a stage has set status error, no later stage changes a
\* business field of the state: alibaba_vpc_data, transformed_data,
\* cdk_code, cdk_project_path and deployment_result stay as they were.
C19_ErrorFreezesBusinessFields ==
    [][(Errored /\ pc \in {"transform_data", "generate_cdk", "gen_loop", "gen_write",
                            "deploy_aws"})
       => BusinessFields(state') = BusinessFields(state)]_vars

\* The run has passed through the error-handling step.
HandledError == \E i \in 1..Len(stages) : stages[i].node = "handle_error"

\* C20: a run in which a stage sets status error passes through
\* handle_error before the workflow ends, and a run without a stage error
\* never does.
C20_ErrorRoutedThroughHandler ==
    pc \in {"END", "returned"} => (Errored <=> HandledError)

\* C21: the generation loop stops within a bound when the model answers
\* every turn with a tool request: the loop never starts a pass after as
\* many model invocations as the bound of this model allows.
C21_LoopStopsWithinBound ==
    pc = "gen_loop" => gen.turns < MaxTurns

\* C22: when the LLM-assisted parsing takes longer than the 30 time units,
\* get_vpc_info stops waiting and returns the synthetic mock for the
\* requested id and region.
C22_TimeoutFallsBackToMock ==
    Called("bedrock.parse", "late")
    => vpc_info = GetMockVpcData(RequestedVpcId(state.source_vpc_config),
                                 RequestedRegion(state.source_vpc_config))

\* Run r has yet to call the code generator, or the provider.
StillUsesGenerator(r) ==
    pc[r] \in {"extract_vpc", "extract_connect", "extract_session", "extract_initialize",
               "extract_call_tool", "extract_wait_for", "transform_data",
               "generate_cdk", "gen_connect", "gen_session", "gen_initialize",
               "gen_list_tools"}
StillUsesProvider(r) ==
    pc[r] \in {"extract_vpc", "extract_connect", "extract_session", "extract_initialize",
               "extract_call_tool"}

\* C23: two runs in flight on one instance share no mutable state: the
\* description of each run names the class of its own project, the class
\* of its own entry-point file, and no cleanup releases a session that the
\* other run has yet to use.
C23_ConcurrentRunsIndependent ==
    \A r \in Runs :
       /\ pc[r] = "gen_list_tools"
          => /\ gen[r].description.class_name = ClassName(state[r].target_project_name)
             /\ gen[r].description.class_name
                   = BinContent(state[r].target_project_name).new_class
       /\ StillUsesGenerator(r) => ~wf.cdk_generator.closed
       /\ StillUsesProvider(r) => ~wf.aliyun_client.closed

\* The number of calls of this name the run has made.
TimesCalled(name) == Cardinality({i \in 1..Len(trace) : trace[i].call = name})

\* C24: within one run each external call of a stage is attempted at most
\* once, whether it fails or not: at most one provider describe call, one
\* LLM parse, one cdk init, one npm install, one cdk bootstrap and one cdk
\* deploy.
C24_EachExternalCallAtMostOnce ==
    \A name \in {"aliyun.call_tool", "bedrock.parse", "cdk_init", "npm_install",
                 "cdk_bootstrap", "cdk_deploy"} :
       TimesCalled(name) <= 1

\* The run has ended after a failed cdk deploy, every call made once.
C24_Witness ==
    /\ pc = "returned"
    /\ Called("cdk_deploy", "1")
    /\ \A name \in {"aliyun.call_tool", "cdk_init", "npm_install", "cdk_bootstrap",
                    "cdk_deploy"} : TimesCalled(name) = 1

\* The calls a step has added to the trace hold this one.
Added(name, out) ==
    \E i \in (Len(trace) + 1)..Len(trace') : trace'[i] = Call(name, out)

\* C25: the exit status of cdk bootstrap never affects the deploy stage:
\* after a successful npm install, cdk deploy is run whatever the exit code
\* of bootstrap was, and status and deployment_result are those of a stage
\* whose bootstrap exited 0.
C25_BootstrapExitIgnored ==
    [][(pc = "deploy_aws" /\ pc' = "END" /\ Added("npm_install", "0")
          /\ (Added("cdk_bootstrap", "0") \/ Added("cdk_bootstrap", "1")))
       => /\ \E d \in SubprocessOutcomes : Added("cdk_deploy", d)
          /\ \A d \in SubprocessOutcomes :
                Added("cdk_deploy", d)
                => /\ state'.status = (IF d = "0" THEN "completed" ELSE "error")
                   /\ state'.deployment_result
                         = (IF d = "0"
                            THEN D([status |-> S(<<"d", "e", "p", "l", "o", "y", "e", "d">>),
                                    output |-> S(Stdout),
                                    project_path |-> S(PathStr(state.cdk_project_path))])
                            ELSE state.deployment_result)]_vars

\* cdk bootstrap exited 1, cdk deploy was run and exited 0, and the stage
\* reported the deployment.
C25_Witness ==
    /\ pc = "END"
    /\ Called("npm_install", "0") /\ Called("cdk_bootstrap", "1")
    /\ Called("cdk_deploy", "0")
    /\ state.status = "completed"
    /\ Get(state.deployment_result, "status") = S(<<"d", "e", "p", "l", "o", "y", "e", "d">>)

NodeOrder == <<"extract_vpc", "transform_data", "generate_cdk", "deploy_aws">>
StatusOrder == <<"started", "vpc_extracted", "data_transformed", "cdk_generated", "completed">>
\* The calls of the stages, by stage number.
StageOfCall(name) ==
    CASE name \in {"AliyunMCPClient", "aliyun.connect", "aliyun.call_tool", "bedrock.parse"} -> 1
      [] name \in {"cdk_init", "CDKCodeGenerator", "cdk.connect", "cdk.list_tools",
                   "cdk.call_tool", "bedrock.generate", "write_stack", "write_bin"} -> 3
      [] name \in {"npm_install", "cdk_bootstrap", "cdk_deploy"} -> 4
      [] OTHER -> 5

\* C26: the stages run in the order extract, transform, generate, deploy,
\* each at most once and each to its end, the tool-call loop included,
\* before the next starts; while no stage has failed, status advances one
\* step at a time along started, vpc_extracted, data_transformed,
\* cdk_generated, completed.
C26_StagesInOrderStatusStepwise ==
    /\ Len(stages) <= 4
    /\ \A i \in 1..Len(stages) : stages[i].node = NodeOrder[i]
    /\ \A i, j \in 1..Len(trace) : i < j => StageOfCall(trace[i].call) <= StageOfCall(trace[j].call)
    /\ pc = "deploy_aws" => gen = NoGen
    /\ pc \in {"gen_loop", "gen_write"} => Len(stages) = 2
    /\ (~Errored /\ pc # "idle")
       => /\ \A i \in 1..Len(stages) : stages[i].status = StatusOrder[i + 1]
          /\ state.status = StatusOrder[Len(stages) + 1]

\* A run without a failure has ended after a tool call in the generation
\* loop: four stages, four steps of status.
C26_Witness ==
    /\ pc = "returned"
    /\ Called("cdk.call_tool", "ok")
    /\ Len(stages) = 4 /\ ~Errored
    /\ result.status = "completed"

\* C27: after the extract stage alibaba_vpc_data holds vswitches and
\* security_groups as sequences, whichever way the record was obtained, so
\* the transform never fails for want of one of the two fields.
C27_ExtractedHasBothSequences ==
    Len(stages) >= 1
    => /\ IsDict(state.alibaba_vpc_data)
       /\ IsList(Get(state.alibaba_vpc_data, "vswitches"))
       /\ IsList(Get(state.alibaba_vpc_data, "security_groups"))
       /\ (Len(stages) >= 2 /\ stages[2].status = "error")
          => ~Lacks(state.alibaba_vpc_data, {"vswitches", "security_groups"})

\* C28: the transform passes the name and the CIDR of each subnet through
\* unchanged and sets map_public_ip_on_launch to true for every subnet.
C28_SubnetNameAndCidrUnchanged ==
    Transformed
    => \A i \in 1..Len(state.transformed_data.d.subnets.l) :
          /\ state.transformed_data.d.subnets.l[i].d.name
                = Elems(state.alibaba_vpc_data.d.vswitches)[i].d.name
          /\ state.transformed_data.d.subnets.l[i].d.cidr
                = Elems(state.alibaba_vpc_data.d.vswitches)[i].d.cidr_block
          /\ state.transformed_data.d.subnets.l[i].d.map_public_ip_on_launch = B(TRUE)

\* What a parser falls back to: the mock for the request, or no subnets.
ParserFallback(variant) ==
    IF variant = "vpc"
    THEN GetMockVpcData(RequestedVpcId(ConcurrentConfig), RequestedRegion(ConcurrentConfig))
    ELSE L(<<>>)
\* Positions i..j of the text run from its first open to its last close.
FirstToLast(text, open, close, i, j) ==
    /\ i < j /\ text[i] = open /\ text[j] = close
    /\ \A k \in 1..(i - 1) : text[k] # open
    /\ \A k \in (j + 1)..Len(text) : text[k] # close
\* What the text from its first open to its last close parses to, if there
\* is such a span and it is JSON.
HasJsonSpan(text, open, close) ==
    \E i, j \in 1..Len(text) :
       FirstToLast(text, open, close, i, j) /\ ~IsExc(JsonLoads(SubSeq(text, i, j)))
SpanValueIs(text, open, close, v) ==
    \E i, j \in 1..Len(text) :
       FirstToLast(text, open, close, i, j) /\ v = JsonLoads(SubSeq(text, i, j))
ParserChain(variant, answered, text, open, close, v) ==
    IF ~answered THEN v = ParserFallback(variant)
    ELSE IF ~IsExc(JsonLoads(text)) THEN v = JsonLoads(text)
    ELSE IF HasJsonSpan(text, open, close) THEN SpanValueIs(text, open, close, v)
    ELSE v = ParserFallback(variant)

\* C29: for every text of the LLM the parser raises nothing and returns the
\* value of the whole text if it is JSON; else the value of the span from
\* the first opening to the last closing delimiter if that is JSON; else
\* the mock for the request (VPC parser) or the empty list (subnet parser).
C29_ParserFallbackChain ==
    pc = "parsed"
    => /\ ~IsExc(result)
       /\ ParserChain(state.variant, state.answered, state.text,
                      IF state.variant = "vpc" THEN "{" ELSE "[",
                      IF state.variant = "vpc" THEN "}" ELSE "]", result)

\* The VPC parser was given two objects side by side: the span from the
\* first brace to the last is not JSON, and the mock came back.
C29_Witness ==
    /\ pc = "parsed"
    /\ state = [variant |-> "vpc", answered |-> TRUE, text |-> <<"{", "}", "{", "}">>]
    /\ result = ParserFallback("vpc")

\* The entry's id under either of the two id keys equals the requested id.
HasRequestedId(entry, vpc_id) ==
    \/ "VpcId" \in DOMAIN entry.d /\ entry.d["VpcId"] = S(vpc_id)
    \/ "vpc_id" \in DOMAIN entry.d /\ entry.d["vpc_id"] = S(vpc_id)
\* The record returned carries the id and the name of this entry.
IsRecordOf(v, entry) ==
    /\ IsDict(v)
    /\ v.d.vpc_id = (IF "VpcId" \in DOMAIN entry.d THEN entry.d["VpcId"]
                     ELSE entry.d["vpc_id"])
    /\ v.d.vpc_name = (IF "VpcName" \in DOMAIN entry.d THEN entry.d["VpcName"]
                       ELSE entry.d["vpc_name"])
\* Entry i is the first with the requested id.
FirstWithRequestedId(entries, vpc_id, i) ==
    /\ HasRequestedId(entries[i], vpc_id)
    /\ \A j \in 1..(i - 1) : ~HasRequestedId(entries[j], vpc_id)

\* C30: given a non-empty collection under Vpcs.Vpc, vpcs or Vpc (the first
\* of these present, bare or inside body), the normalizer returns the record
\* of the first entry whose VpcId or vpc_id equals the requested id exactly;
\* with no id requested, the record of the first entry.
C30_SelectsRequestedOrFirst ==
    pc = "converted"
    => /\ state.vpc_id = <<>> => IsRecordOf(result, state.entries[1])
       /\ \A i \in 1..Len(state.entries) :
             state.vpc_id # <<>> /\ FirstWithRequestedId(state.entries, state.vpc_id, i)
             => IsRecordOf(result, state.entries[i])

\* The id v1 was requested of an enveloped document with other collections
\* beside; the entries are v2, V1 and, under the key vpc_id, v1: the third
\* was selected.
C30_Witness ==
    /\ pc = "converted"
    /\ state.vpc_id = <<"v","1">> /\ state.key = "vpcs" /\ state.decoy /\ state.envelope
    /\ state.entries = <<ProviderVpc2, D([VpcId |-> S(<<"V","1">>), VpcName |-> S(<<"u","p","p","e","r">>)]),
                         D([vpc_id |-> S(<<"v","1">>), vpc_name |-> S(<<"w","e","b","-","n","e","t">>)])>>
    /\ result.d.vpc_name = S(<<"w","e","b","-","n","e","t">>)

\* No external call of this step failed.
StepCallsAllOk ==
    \A i \in (Len(trace) + 1)..Len(trace') : trace'[i].out # "raise"

\* C31: the text generate_cdk_code returns is the join, in emission order,
\* of every text block of every answer of the model: each pass of the loop
\* that fails nowhere adds all text blocks of the answer it handles, also
\* those of an answer that requests a tool, and the text returned at the end
\* of the loop is the join of what was added.
C31_EveryTextBlockJoined ==
    [][(pc = "gen_loop" /\ pc' \in {"gen_loop", "gen_write"} /\ StepCallsAllOk)
       => /\ gen'.final_text = gen.final_text \o TextsOf(gen.response)
          /\ pc' = "gen_write" => gen'.text = JoinTexts(gen'.final_text)]_vars

\* The stack file and the entry-point file of the run's project.
StackPath ==
    StackFile(ProjectPath(state.target_directory, state.target_project_name),
              state.target_project_name)
BinPath ==
    BinFile(ProjectPath(state.target_directory, state.target_project_name),
            state.target_project_name)

\* C32: when code extraction yields the empty string and no write fails,
\* the generate stage does not fail: the stack file holds the empty content,
\* the entry-point file is written, the stage ends with status
\* cdk_generated and the deploy stage is next.
C32_EmptyExtractionNotFatal ==
    [][(pc = "gen_write" /\ ExtractTypescriptCode(gen.text) = <<"">> /\ StepCallsAllOk)
       => /\ StackPath \in DOMAIN fs' /\ fs'[StackPath] = <<"">>
          /\ BinPath \in DOMAIN fs' /\ fs'[BinPath] = BinContent(state.target_project_name)
          /\ state'.status = "cdk_generated"
          /\ stages'[Len(stages')] = [node |-> "generate_cdk", status |-> "cdk_generated"]
          /\ pc' = "deploy_aws"]_vars

\* The model answered prose only: nothing was extracted, the stack file is
\* empty and the deploy stage has run.
C32_Witness ==
    /\ Len(stages) >= 4
    /\ stages[3] = [node |-> "generate_cdk", status |-> "cdk_generated"]
    /\ stages[4].node = "deploy_aws"
    /\ state.cdk_code = ProseText
    /\ StackPath \in DOMAIN fs /\ fs[StackPath] = <<"">>

\* C33: the state run_migration returns has status completed or error,
\* never started, vpc_extracted, data_transformed or cdk_generated.
C33_ReturnedStatusFinal ==
    pc = "returned" => result.status \in {"completed", "error"}

\* A run whose first three stages succeeded and whose deploy stage failed
\* has returned.
C33_Witness ==
    /\ pc = "returned"
    /\ Len(stages) = 4
    /\ stages[3].status = "cdk_generated"
    /\ stages[4] = [node |-> "deploy_aws", status |-> "error"]
    /\ result.status = "error"

\* C34: no later stage overwrites the error_message recorded by the stage
\* that first set status error, so the state returned with status error
\* carries the message of the first stage failure.
C34_FirstErrorMessageKept ==
    [][state.status = "error" => state'.error_message = state.error_message]_vars

\* The fields of a workflow state other than status and error_message.
FrameFields(s) ==
    <<s.source_vpc_config, s.target_project_name, s.target_directory,
      s.alibaba_vpc_data, s.transformed_data, s.cdk_code, s.cdk_project_path,
      s.deployment_result>>

\* C35: a transform, generate or deploy stage that ends with status error
\* changes only status and error_message: transformed_data, cdk_code,
\* cdk_project_path and deployment_result (and every other field) keep the
\* values they had when the stage began.
C35_FailedStageKeepsFields ==
    [][(Len(stages') = Len(stages) + 1
        /\ stages'[Len(stages')].node \in HardStages
        /\ stages'[Len(stages')].status = "error")
       => FrameFields(state') = FrameFields(state)]_vars

\* The deploy stage failed after three stages that succeeded: the code and
\* the project path of the generate stage are still there, no deployment
\* result is.
C35_Witness ==
    /\ Len(stages) >= 4
    /\ stages[3].status = "cdk_generated"
    /\ stages[4] = [node |-> "deploy_aws", status |-> "error"]
    /\ state.transformed_data # D(EmptyDict)
    /\ state.cdk_code = CodeText
    /\ state.cdk_project_path = ProjectPath(state.target_directory, state.target_project_name)
    /\ state.deployment_result = D(EmptyDict)

\* This step calls a tool of the session of client, named by one of uses,
\* and cleanup() had run on that client before the step.
UsesReleased(client, uses) ==
    /\ wf[client].closed
    /\ \E i \in (Len(trace) + 1)..Len(trace') : trace'[i].call \in uses

\* C36: across run_migration calls on one instance no MCP session is used
\* (list_tools or call_tool) after cleanup has released it: a run that
\* follows an earlier run calls no tool on a client the earlier run cleaned
\* up.
C36_NoUseAfterCleanup ==
    [][/\ ~UsesReleased("aliyun_client", {"aliyun.call_tool"})
       /\ ~UsesReleased("cdk_generator", {"cdk.list_tools", "cdk.call_tool"})]_vars

\* C37: when an id is requested and the collection is non-empty, the record
\* the normalizer returns has the requested id as its vpc_id, also when no
\* entry of the collection has that id.
C37_ReturnsRequestedVpc ==
    (pc = "converted" /\ state.vpc_id # <<>>)
    => IsDict(result) /\ result.d.vpc_id = S(state.vpc_id)

\* The four steps of a migration, in order.
StepOrder ==
    <<"_extract_source_config", "_transform_data", "_generate_infrastructure_code",
      "_deploy_infrastructure">>
\* The number of times rollback was invoked.
Rollbacks == Cardinality({i \in 1..Len(trace) : trace[i].call = "_rollback_migration"})
\* The steps invoked so far are the first n of the four, in order, and all
\* but possibly the last succeeded.
InvokedInOrder(n) ==
    /\ n <= Len(StepOrder) /\ n <= Len(trace)
    /\ \A i \in 1..n : trace[i].call = StepOrder[i]
    /\ \A i \in 1..(n - 1) : trace[i].out = "ok"

\* C38: execute_migration invokes extract, transform, generate and deploy in
\* this order, a step only if all earlier steps succeeded; on the first
\* failure (a missing server included) it invokes rollback exactly once and
\* re-raises the failure; it returns status success only when all four
\* steps succeeded.
C38_StepsInOrderRollbackOnce ==
    /\ \/ Len(trace) = 0 /\ pc = StepOrder[1]
       \/ /\ Len(trace) > 0 /\ pc # "raised"
          /\ InvokedInOrder(Len(trace)) /\ trace[Len(trace)].out = "ok"
       \/ /\ pc = "raised" /\ Len(trace) >= 2
          /\ InvokedInOrder(Len(trace) - 1)
          /\ trace[Len(trace) - 1].out = "raise"
          /\ trace[Len(trace)].call = "_rollback_migration"
          /\ Rollbacks = 1
          /\ IsExc(result)
    /\ pc # "raised" => Rollbacks = 0
    /\ (pc = "returned" \/ (IsDict(result) /\ result.d.status = S(<<"s","u","c","c","e","s","s">>)))
       => /\ pc = "returned"
          /\ result.d.status = S(<<"s","u","c","c","e","s","s">>)
          /\ Len(trace) = Len(StepOrder)
          /\ \A i \in 1..Len(trace) : trace[i] = Call(StepOrder[i], "ok")

\* Message i of the conversation is a tool_result: a user message that
\* carries a correlation id.
IsToolResult(messages, i) == messages[i].role = "user" /\ messages[i].id # "-"

\* C39: the conversation generate_cdk_code sends to the model starts with a
\* user message and alternates user and assistant messages; every
\* tool_result carries the id of a tool request in the assistant message
\* just before it, and every tool request of an assistant message is
\* answered by the tool_result that follows.
C39_ConversationWellFormed ==
    \A i \in 1..Len(gen.messages) :
       /\ gen.messages[i].role = (IF i % 2 = 1 THEN "user" ELSE "assistant")
       /\ IsToolResult(gen.messages, i)
          => /\ i > 1
             /\ \E b \in 1..Len(gen.messages[i - 1].content) :
                   /\ gen.messages[i - 1].content[b].type = "tool_use"
                   /\ gen.messages[i - 1].content[b].id = gen.messages[i].id
       /\ gen.messages[i].role = "assistant"
          => \A b \in 1..Len(gen.messages[i].content) :
                gen.messages[i].content[b].type = "tool_use"
                => /\ i < Len(gen.messages)
                   /\ IsToolResult(gen.messages, i + 1)
                   /\ gen.messages[i + 1].id = gen.messages[i].content[b].id

\* Three tool rounds: the conversation holds the prompt and, for each
\* round, an assistant message with the blocks of that answer up to its
\* tool request and the tool_result with the id of that request.
C39_Witness ==
    /\ pc = "gen_loop"
    /\ Len(gen.messages) = 7
    /\ gen.messages[1] = [role |-> "user", content |-> <<>>, id |-> "-"]
    /\ gen.messages[2] = [role |-> "assistant",
                          content |-> <<Text(ProseText), ToolUse("tu2")>>, id |-> "-"]
    /\ gen.messages[3] = [role |-> "user", content |-> <<>>, id |-> "tu2"]
    /\ gen.messages[4] = [role |-> "assistant",
                          content |-> <<Text(PaddedText), ToolUse("tu3")>>, id |-> "-"]
    /\ gen.messages[5] = [role |-> "user", content |-> <<>>, id |-> "tu3"]
    /\ gen.messages[6] = [role |-> "assistant", content |-> <<ToolUse("tu1")>>, id |-> "-"]
    /\ gen.messages[7] = [role |-> "user", content |-> <<>>, id |-> "tu1"]
====
